---------------------------- MODULE Spec2Model ----------------------------
(***************************************************************************)
(* Multi-agent path planning on a grid.                                    *)
(*                                                                         *)
(*   - the grid search engine of search_algorithms.py: A*, Greedy          *)
(*     Best-First, Weighted A*, Dynamic-Weighted A* and the bounded-memory *)
(*     (SMA*-style) search, all driven by Python's heapq binary heap;      *)
(*   - the partial-knowledge Robot of robot_partial_knowledge.py;          *)
(*   - the synchronous simulation loop of run_partial_robots.py.           *)
(*                                                                         *)
(* Positions are <<row, col>> with rows and columns counted from 0 as in   *)
(* the source.  A grid is a sequence of rows, each a sequence of cell      *)
(* symbols "0" (free), "1" (obstacle), "R", "G", "?"; TLA+ sequences are   *)
(* counted from 1, so the source's grid[r][c] is grid[r + 1][c + 1] here.  *)
(***************************************************************************)
EXTENDS Integers, Sequences, FiniteSets, TLC

VARIABLES
    \* ---- one call of a search function (specification SearchSpec) ----
    call,             \* the arguments of the call
    search,           \* the locals of the running search function
    \* ---- one run of run_simulation (specification Spec) ----
    full_map,         \* the ground-truth grid
    grid_size,        \* <<rows, cols>>
    sensor_radius,    \* Robot.sensor_radius (the same for all robots)
    robots,           \* sequence of Robot objects, robots[i].id = i
    robot_positions,  \* Robot.robot_positions: id -> position, moved robots only
    pc,               \* position in run_simulation
    cur,              \* index of the robot the Phase 2 loop is at
    time_step,        \* run_simulation.time_step
    next_moves,       \* run_simulation.next_moves: id -> position or None
    any_robot_moved,  \* run_simulation.any_robot_moved
    step_log,         \* per robot, what Phase 2 of this step did to it
    outcome           \* what run_simulation printed at its end

search_vars == <<call, search>>
sim_vars == <<full_map, grid_size, sensor_radius, robots, robot_positions, pc,
              cur, time_step, next_moves, any_robot_moved, step_log, outcome>>
vars == <<call, search, full_map, grid_size, sensor_radius, robots,
          robot_positions, pc, cur, time_step, next_moves, any_robot_moved,
          step_log, outcome>>

\* Python's None as a search result.  No search function returns an empty
\* path, so the empty sequence stands for None and `if path:` is path # None.
None == <<>>

-----------------------------------------------------------------------------
(***************************************************************************)
(* Grids                                                                   *)
(***************************************************************************)

\* len(grid), len(grid[0])
NumRows(grid) == Len(grid)
NumCols(grid) == Len(grid[1])

\* 0 <= r < len(grid) and 0 <= c < len(grid[0])
InBounds(grid, pos) ==
    /\ 0 <= pos[1] /\ pos[1] < NumRows(grid)
    /\ 0 <= pos[2] /\ pos[2] < NumCols(grid)

\* grid[r][c]
At(grid, pos) == grid[pos[1] + 1][pos[2] + 1]

\* grid[r][c] = symbol
SetAt(grid, pos, symbol) ==
    [grid EXCEPT ![pos[1] + 1] = [@ EXCEPT ![pos[2] + 1] = symbol]]

CellsOf(rows, cols) == (0 .. rows - 1) \X (0 .. cols - 1)

Abs(x) == IF x < 0 THEN -x ELSE x


-----------------------------------------------------------------------------
(***************************************************************************)
(* Search nodes.  The Node objects of one search call live in the arena    *)
(* `nodes`, a sequence; a node is named by its index, parent = 0 is the    *)
(* source's parent = None.  A node's children are the nodes naming it as   *)
(* parent, in creation order.                                               *)
(*                                                                         *)
(* f is kept as an exact integer: Weighted A* computes g + h * weight in   *)
(* doubles, exact for the weights modelled (multiples of 0.5), and is kept *)
(* times 2; Dynamic-Weighted A* computes g + (1 + h / max_distance) * h    *)
(* and is kept times max_distance, with the rounding error of the double   *)
(* result in the field fe, so that Node.__lt__ orders nodes as the doubles *)
(* do.                                                                     *)
(***************************************************************************)

\* Node.__init__
Node(nodes, parent, position) ==
    [position |-> position, parent |-> parent, g |-> 0, h |-> 0, f |-> 0,
     fe |-> 0, depth |-> IF parent # 0 THEN nodes[parent].depth + 1 ELSE 0]

\* Node.__lt__: self.f < other.f
NodeLt(a, b) == a.f < b.f \/ (a.f = b.f /\ a.fe < b.fe)

\* Node.__eq__: self.position == other.position
NodeEq(a, b) == a.position = b.position

manhattan_distance(pa, pb) == Abs(pa[1] - pb[1]) + Abs(pa[2] - pb[2])

\* The error of the double g + (1 + h / max_distance) * h against the exact
\* value, in units of 2^-52 / max_distance.  It is 0 whenever max_distance is
\* 0, 1, 2 or 4 (the division is exact); for max_distance = 3 it is as listed
\* (1 <= g <= 11, 0 <= h <= 5), which covers every grid of at most 3 x 3 cells.
FloatErr(max_distance, g, h) ==
    IF max_distance # 3 THEN 0
    ELSE CASE h = 1 -> IF g <= 6 THEN -4 ELSE 8
           [] h = 2 -> IF g <= 4 THEN -4 ELSE -16
           [] h = 4 -> -16
           [] h = 5 -> 32
           [] OTHER -> 0

-----------------------------------------------------------------------------
(***************************************************************************)
(* heapq.  A heap is a sequence of node indices; heap position p of the    *)
(* source (from 0) is element p + 1 here.                                  *)
(***************************************************************************)

RECURSIVE SiftDownFrom(_, _, _, _, _)
SiftDownFrom(nodes, heap, startpos, pos, newitem) ==
    IF pos > startpos
    THEN LET parentpos == (pos - 1) \div 2
             parent == heap[parentpos + 1]
         IN  IF NodeLt(nodes[newitem], nodes[parent])
             THEN SiftDownFrom(nodes, [heap EXCEPT ![pos + 1] = parent],
                               startpos, parentpos, newitem)
             ELSE [heap EXCEPT ![pos + 1] = newitem]
    ELSE [heap EXCEPT ![pos + 1] = newitem]

\* heapq._siftdown(heap, startpos, pos)
SiftDown(nodes, heap, startpos, pos) ==
    SiftDownFrom(nodes, heap, startpos, pos, heap[pos + 1])

RECURSIVE SiftUpFrom(_, _, _, _, _)
SiftUpFrom(nodes, heap, startpos, pos, newitem) ==
    LET endpos == Len(heap)
        leftpos == 2 * pos + 1
        rightpos == leftpos + 1
        childpos == IF rightpos < endpos
                       /\ ~NodeLt(nodes[heap[leftpos + 1]], nodes[heap[rightpos + 1]])
                    THEN rightpos ELSE leftpos
    IN  IF leftpos < endpos
        THEN SiftUpFrom(nodes, [heap EXCEPT ![pos + 1] = heap[childpos + 1]],
                        startpos, childpos, newitem)
        ELSE SiftDown(nodes, [heap EXCEPT ![pos + 1] = newitem], startpos, pos)

\* heapq._siftup(heap, pos)
SiftUp(nodes, heap, pos) == SiftUpFrom(nodes, heap, pos, pos, heap[pos + 1])

\* heapq.heappush(heap, item)
heappush(nodes, heap, item) ==
    SiftDown(nodes, Append(heap, item), 0, Len(heap))

\* heappop taking the last element of the list (list.pop) instead of the least
heappop_ListPop(nodes, heap) ==
    <<heap[Len(heap)], SubSeq(heap, 1, Len(heap) - 1)>>

\* heapq.heappop(heap), for a non-empty heap: <<returned item, heap left>>
heappop(nodes, heap) ==
    LET lastelt == heap[Len(heap)]
        rest == SubSeq(heap, 1, Len(heap) - 1)
    IN  IF rest # <<>>
        THEN <<rest[1], SiftUp(nodes, [rest EXCEPT ![1] = lastelt], 0)>>
        ELSE <<lastelt, rest>>

RECURSIVE HeapifyFrom(_, _, _)
HeapifyFrom(nodes, heap, i) ==
    IF i < 0 THEN heap ELSE HeapifyFrom(nodes, SiftUp(nodes, heap, i), i - 1)

\* heapq.heapify(x): for i in reversed(range(n // 2)): _siftup(x, i)
heapify(nodes, heap) == HeapifyFrom(nodes, heap, (Len(heap) \div 2) - 1)

-----------------------------------------------------------------------------
(***************************************************************************)
(* The search functions.  A call c is a record                             *)
(*   [algo, grid, start_pos, end_pos, weight2, max_nodes]                  *)
(* where algo names the function, weight2 is twice the weight argument of  *)
(* weighted_a_star_search and max_nodes that of sma_star_search; the       *)
(* heuristic is manhattan_distance.  The locals of a running call are      *)
(*   [nodes, open_list, closed_set, status, value]                         *)
(* with status "running", "returned" (value: the path, or None) or         *)
(* "raised" (an IndexError left the function).  The five share the loop    *)
(* below and differ in the start node, the f of a neighbour and, for       *)
(* sma_star_search, the pruning at the head of the loop.                   *)
(***************************************************************************)

Algos == {"a_star", "greedy_bfs", "weighted_a_star", "sma_star", "dynamic_weighted_a_star"}

\* max_distance of dynamic_weighted_a_star_search
MaxDistance(c) == manhattan_distance(c.start_pos, c.end_pos)

\* neighbor.g: greedy_bfs_search never sets it
NeighborG(c, current_g) == IF c.algo = "greedy_bfs" THEN 0 ELSE current_g + 1

\* NeighborF with a_star_search ordering its frontier by h alone
NeighborF_AStarDropsG(c, g, h) ==
    CASE c.algo = "a_star" -> h
      [] c.algo = "greedy_bfs" -> h
      [] c.algo = "weighted_a_star" -> 2 * g + h * c.weight2
      [] c.algo = "sma_star" -> g + h
      [] c.algo = "dynamic_weighted_a_star" ->
            IF MaxDistance(c) # 0
            THEN MaxDistance(c) * g + (MaxDistance(c) + h) * h
            ELSE g + 2 * h

\* neighbor.f, as the exact integer described above
NeighborF(c, g, h) ==
    CASE c.algo = "a_star" -> g + h
      [] c.algo = "greedy_bfs" -> h
      [] c.algo = "weighted_a_star" -> 2 * g + h * c.weight2
      [] c.algo = "sma_star" -> g + h
      [] c.algo = "dynamic_weighted_a_star" ->
            IF MaxDistance(c) # 0
            THEN MaxDistance(c) * g + (MaxDistance(c) + h) * h
            ELSE g + 2 * h

NeighborFe(c, g, h) ==
    IF c.algo = "dynamic_weighted_a_star" THEN FloatErr(MaxDistance(c), g, h) ELSE 0

\* start_node: greedy_bfs_search and sma_star_search set its h and f, the
\* others leave them 0
StartNode(c) ==
    LET n == Node(<<>>, 0, c.start_pos)
        h == manhattan_distance(c.start_pos, c.end_pos)
    IN  IF c.algo \in {"greedy_bfs", "sma_star"}
        THEN [n EXCEPT !.h = h, !.f = h]
        ELSE n

\* The state of the call at the first test of `while open_list`
SearchInit(c) ==
    [nodes |-> <<StartNode(c)>>, open_list |-> <<1>>, closed_set |-> {},
     status |-> "running", value |-> None]

\* The node k parent links above node n (0: there is none)
RECURSIVE Ancestor(_, _, _)
Ancestor(nodes, n, k) ==
    IF n = 0 \/ k = 0 THEN n
    ELSE IF k = 1 THEN nodes[n].parent
    ELSE Ancestor(nodes, Ancestor(nodes, n, k \div 2), k - k \div 2)

\* The positions of node n and of the nodes above it, at most k in all,
\* topmost first (the walk up the parent links, split in halves)
RECURSIVE PathSegment(_, _, _)
PathSegment(nodes, n, k) ==
    IF n = 0 \/ k = 0 THEN <<>>
    ELSE IF k = 1 THEN <<nodes[n].position>>
    ELSE PathSegment(nodes, Ancestor(nodes, n, k \div 2), k - k \div 2)
            \o PathSegment(nodes, n, k \div 2)

\* The loop of _reconstruct_path from node n up, and path[::-1]
PathTo(nodes, n) == PathSegment(nodes, n, Len(nodes))

\* _reconstruct_path(end_node)
reconstruct_path(nodes, end_node) == PathTo(nodes, end_node)

Moves == <<<<0, 1>>, <<0, -1>>, <<1, 0>>, <<-1, 0>>>>

\* Passable without the test for the closed set
Passable_NoClosedTest(c, closed_set, node_position) ==
    /\ InBounds(c.grid, node_position)
    /\ At(c.grid, node_position) # "1"

\* Passable without the test for an obstacle cell
Passable_NoObstacleTest(c, closed_set, node_position) ==
    /\ InBounds(c.grid, node_position)
    /\ node_position \notin closed_set

\* Whether the neighbour loop pushes a node for node_position
Passable(c, closed_set, node_position) ==
    /\ InBounds(c.grid, node_position)
    /\ At(c.grid, node_position) # "1"
    /\ node_position \notin closed_set

\* The neighbour loop, from move i on: <<nodes, open_list>> after it
RECURSIVE Expand(_, _, _, _, _, _)
Expand(c, closed_set, nodes, open_list, current, i) ==
    IF i > Len(Moves) THEN <<nodes, open_list>>
    ELSE LET cp == nodes[current].position
             node_position == <<cp[1] + Moves[i][1], cp[2] + Moves[i][2]>>
             g == NeighborG(c, nodes[current].g)
             h == manhattan_distance(node_position, c.end_pos)
             neighbor == [Node(nodes, current, node_position) EXCEPT
                             !.g = g, !.h = h, !.f = NeighborF(c, g, h),
                             !.fe = NeighborFe(c, g, h)]
             nodes2 == Append(nodes, neighbor)
         IN  IF Passable(c, closed_set, node_position)
             THEN Expand(c, closed_set, nodes2,
                         heappush(nodes2, open_list, Len(nodes2)), current, i + 1)
             ELSE Expand(c, closed_set, nodes, open_list, current, i + 1)

\* max(open_list, key=lambda n: (n.f, -n.depth)): the place in open_list of
\* the first node whose key no other node's key exceeds
KeyLe(a, b) == a.f < b.f \/ (a.f = b.f /\ -a.depth <= -b.depth)
WorstIndex(nodes, open_list) ==
    CHOOSE i \in 1 .. Len(open_list) :
        /\ \A j \in 1 .. Len(open_list) : KeyLe(nodes[open_list[j]], nodes[open_list[i]])
        /\ \A j \in 1 .. (i - 1) : ~KeyLe(nodes[open_list[i]], nodes[open_list[j]])

\* open_list.remove(worst): list.remove drops the first element equal to
\* worst, and Node.__eq__ compares positions
RemoveIndex(nodes, open_list, worst) ==
    CHOOSE i \in 1 .. Len(open_list) :
        /\ NodeEq(nodes[open_list[i]], nodes[worst])
        /\ \A j \in 1 .. (i - 1) : ~NodeEq(nodes[open_list[j]], nodes[worst])

RemoveAt(seq, i) == SubSeq(seq, 1, i - 1) \o SubSeq(seq, i + 1, Len(seq))

Min(S) == CHOOSE x \in S : \A y \in S : x <= y
Max(S) == CHOOSE x \in S : \A y \in S : y <= x

\* The back-up of sma_star_search: worst.parent.f = max(worst.parent.f,
\* min f of the children of worst.parent that are not equal to worst)
BackUp(nodes, worst) ==
    LET parent == nodes[worst].parent
        siblings == {k \in 1 .. Len(nodes) :
                        nodes[k].parent = parent /\ ~NodeEq(nodes[k], nodes[worst])}
        best_f == Min({nodes[k].f : k \in siblings})
    IN  IF parent # 0 /\ siblings # {}
        THEN [nodes EXCEPT ![parent].f = Max({nodes[parent].f, best_f})]
        ELSE nodes

\* The pruning block at the head of sma_star_search's loop: <<nodes, open_list>>
Prune(c, nodes, open_list) ==
    IF c.algo = "sma_star" /\ Len(open_list) > c.max_nodes
    THEN LET worst == open_list[WorstIndex(nodes, open_list)]
             removed == RemoveAt(open_list, RemoveIndex(nodes, open_list, worst))
         IN  <<BackUp(nodes, worst), heapify(nodes, removed)>>
    ELSE <<nodes, open_list>>

\* One pass of the body of `while open_list`, and the test of the loop that
\* follows it (an empty open_list ends the function with None)
SearchStep(c, s) ==
    LET pruned == Prune(c, s.nodes, s.open_list)
        popped == heappop(pruned[1], pruned[2])
        current_node == popped[1]
        position == pruned[1][current_node].position
        closed2 == {p : p \in s.closed_set \cup {position}}
        expanded == Expand(c, closed2, pruned[1], popped[2], current_node, 1)
        EndLoop(t) == IF t.open_list = <<>>
                      THEN [t EXCEPT !.status = "returned", !.value = None]
                      ELSE t
    IN  IF pruned[2] = <<>>
        THEN \* heappop of an empty list
             [s EXCEPT !.nodes = pruned[1], !.open_list = pruned[2],
                       !.status = "raised"]
        ELSE IF position \in s.closed_set
        THEN EndLoop([s EXCEPT !.nodes = pruned[1], !.open_list = popped[2]])
        ELSE IF position = c.end_pos
        THEN [s EXCEPT !.nodes = pruned[1], !.open_list = popped[2],
                       !.closed_set = closed2, !.status = "returned",
                       !.value = reconstruct_path(pruned[1], current_node)]
        ELSE EndLoop([s EXCEPT !.nodes = expanded[1], !.open_list = expanded[2],
                               !.closed_set = closed2])

\* n passes of `while open_list`, or fewer if the function ends earlier (the
\* passes are split in halves to keep the evaluation shallow)
RECURSIVE Passes(_, _, _)
Passes(c, s, n) ==
    IF n = 0 \/ s.status # "running" THEN s
    ELSE IF n = 1 THEN SearchStep(c, s)
    ELSE Passes(c, Passes(c, s, n \div 2), n - n \div 2)

\* The loop `while open_list`: passes until the function ends (evaluated in
\* blocks of as many passes as there are nodes so far)
RECURSIVE RunSearch(_, _)
RunSearch(c, s) ==
    IF s.status = "running" THEN RunSearch(c, Passes(c, s, Len(s.nodes))) ELSE s

\* The value a call that returns hands back: the path, or None
SearchResult(c) == RunSearch(c, SearchInit(c)).value

AStarCall(grid, start_pos, end_pos) ==
    [algo |-> "a_star", grid |-> grid, start_pos |-> start_pos, end_pos |-> end_pos,
     weight2 |-> 2, max_nodes |-> 0]

\* a_star_search(grid, start_pos, end_pos, manhattan_distance)
a_star_search(grid, start_pos, end_pos) == SearchResult(AStarCall(grid, start_pos, end_pos))

-----------------------------------------------------------------------------
(***************************************************************************)
(* Bounds and inputs                                                       *)
(***************************************************************************)

\* Grids have one of these shapes <<rows, cols>> ...
Shapes == {<<1, 1>>, <<1, 3>>, <<2, 3>>, <<3, 3>>}
\* ... and at most this many obstacle cells
MaxObstacles == 2
\* sma_star_search is called with max_nodes in 0 .. MaxNodes, and with the
\* number of non-obstacle cells of the grid
MaxNodes == 3
\* weighted_a_star_search is called with these weights, times 2 (0.5, 1.5, 3.0)
Weights2 == {1, 3, 6}

SubsetsUpTo(S, n) == {T \in SUBSET S : Cardinality(T) <= n}

\* The grid of the given shape with "1" on the cells of obst and "0" elsewhere
GridOf(shape, obst) ==
    [r \in 1 .. shape[1] |->
        [k \in 1 .. shape[2] |-> IF <<r - 1, k - 1>> \in obst THEN "1" ELSE "0"]]

Cells(grid) == CellsOf(NumRows(grid), NumCols(grid))
ObstacleCells(grid) == {p \in Cells(grid) : At(grid, p) = "1"}
FreeCount(grid) == Cardinality(Cells(grid) \ ObstacleCells(grid))

\* float('inf'), the value relaxed_derived_heuristic returns for "no path":
\* a value that no number of steps takes
Infinity == -1

\* relaxed_derived_heuristic with t_grid spanning node_a's position only
relaxed_derived_heuristic_GridOfA(pa, pb) ==
    LET t_grid == GridOf(<<pa[1] + 1, pa[2] + 1>>, {})
        path == a_star_search(t_grid, pa, pb)
    IN  IF path = None THEN Infinity ELSE Len(path) - 1

\* relaxed_derived_heuristic(node_a, node_b), pa and pb the nodes' positions
relaxed_derived_heuristic(pa, pb) ==
    LET rows == Max({pa[1], pb[1]}) + 1
        cols == Max({pa[2], pb[2]}) + 1
        t_grid == GridOf(<<rows, cols>>, {})
        path == a_star_search(t_grid, pa, pb)
    IN  IF path = None THEN Infinity ELSE Len(path) - 1

Idle == "idle"

\* The simulation's variables while a search call is examined on its own
SimIdle ==
    /\ full_map = Idle /\ grid_size = Idle /\ sensor_radius = Idle
    /\ robots = Idle /\ robot_positions = Idle /\ pc = Idle /\ cur = Idle
    /\ time_step = Idle /\ next_moves = Idle /\ any_robot_moved = Idle
    /\ step_log = Idle /\ outcome = Idle

-----------------------------------------------------------------------------
(***************************************************************************)
(* SearchSpec: one call of one search function, one pass of its loop per   *)
(* step.                                                                   *)
(***************************************************************************)

\* A 4 x 4 grid with a wall between start <<3, 0>> and goal <<0, 2>>, on which
\* Greedy Best-First returns a longer path than A*
TrapGrid == GridOf(<<4, 4>>, {<<1, 1>>, <<1, 2>>})

\* The grids searched: every grid of a shape of Shapes with at most
\* MaxObstacles obstacle cells, and TrapGrid
SearchGrids ==
    UNION {{GridOf(shape, obst) :
               obst \in SubsetsUpTo(CellsOf(shape[1], shape[2]), MaxObstacles)} :
           shape \in Shapes}
    \cup {TrapGrid}

\* The functions called on grid: the rounding of dynamic_weighted_a_star_search
\* is tabulated (FloatErr) for grids of at most 3 x 3 cells
AlgosOn(grid) ==
    IF NumRows(grid) <= 3 /\ NumCols(grid) <= 3
    THEN Algos ELSE Algos \ {"dynamic_weighted_a_star"}

\* The weights and frontier bounds a call of algo on grid is given; the
\* functions that take no such argument get the one value the model ignores
WeightsOf(algo) == IF algo = "weighted_a_star" THEN Weights2 ELSE {2}
MaxNodesOf(algo, grid) ==
    IF algo = "sma_star" THEN (0 .. MaxNodes) \cup {FreeCount(grid)} ELSE {0}

SearchSpecInit ==
    /\ \E grid \in SearchGrids :
       \E sp \in Cells(grid), ep \in Cells(grid) :
       \E a \in AlgosOn(grid) :
       \E w \in WeightsOf(a), m \in MaxNodesOf(a, grid) :
          call = [algo |-> a, grid |-> grid, start_pos |-> sp, end_pos |-> ep,
                  weight2 |-> w, max_nodes |-> m]
    /\ search = SearchInit(call)
    /\ SimIdle

\* One pass of `while open_list` of the called function
SearchIterate ==
    /\ search.status = "running"
    /\ search' = SearchStep(call, search)
    /\ UNCHANGED <<call, sim_vars>>

SearchNext == SearchIterate

SearchSpec == SearchSpecInit /\ [][SearchNext]_vars

-----------------------------------------------------------------------------
(***************************************************************************)
(* Properties of the search functions (checked under SearchSpec)           *)
(***************************************************************************)

Finished == search.status # "running"
ReturnedPath == search.status = "returned" /\ search.value # None

Adjacent(p, q) == manhattan_distance(p, q) = 1

\* The cells reached from `frontier` by d more moves, each into a cell of the
\* grid that is not an obstacle: the least d at which goal is reached, or -1
RECURSIVE StepsTo(_, _, _, _, _)
StepsTo(grid, frontier, seen, goal, d) ==
    IF goal \in frontier THEN d
    ELSE LET next == {q \in Cells(grid) \ seen :
                         At(grid, q) # "1" /\ \E p \in frontier : Adjacent(p, q)}
         IN  IF next = {} THEN -1
             ELSE StepsTo(grid, next, seen \cup next, goal, d + 1)

\* The true shortest 4-connected path length from start to goal: the least
\* number of moves, each into a non-obstacle cell; -1 when there is none
ShortestCost(grid, start, goal) == StepsTo(grid, {start}, {start}, goal, 0)

EndpointsAndSteps(path) ==
    /\ path[1] = call.start_pos
    /\ path[Len(path)] = call.end_pos
    /\ \A i \in 1 .. Len(path) - 1 : Adjacent(path[i], path[i + 1])

\* C1 as stated: a returned path runs from start to goal in 4-adjacent steps
\* and none of its positions, the start included, is an Obstacle cell of the
\* grid given to the search.
C1_PathAvoidsObstaclesStartIncluded ==
    ReturnedPath =>
        /\ EndpointsAndSteps(search.value)
        /\ \A i \in 1 .. Len(search.value) : At(call.grid, search.value[i]) # "1"

\* C1 as amended: for every search variant, a returned path runs from start
\* to goal in 4-adjacent steps and no position after its first is an Obstacle
\* cell of the grid given to the search (the start cell itself is never tested).
C1_PathValid ==
    ReturnedPath =>
        /\ EndpointsAndSteps(search.value)
        /\ \A i \in 2 .. Len(search.value) : At(call.grid, search.value[i]) # "1"

C1_Witness ==
    /\ ReturnedPath
    /\ call.algo = "sma_star"
    /\ Len(search.value) >= 5
    /\ ObstacleCells(call.grid) # {}

CentreBlocked == GridOf(<<3, 3>>, {<<1, 1>>})

\* C2: A* with the Manhattan heuristic returns a path of the true shortest
\* cost when the goal can be reached and None when it cannot; on an
\* obstacle-free grid the cost is the Manhattan distance, and on the 3 x 3
\* grid with only the centre blocked the path from (0,0) to (2,2) has 5
\* positions.
C2_AStarOptimal ==
    (call.algo = "a_star" /\ Finished) =>
        LET d == ShortestCost(call.grid, call.start_pos, call.end_pos)
        IN  /\ search.status = "returned"
            /\ IF d >= 0
               THEN search.value # None /\ Len(search.value) - 1 = d
               ELSE search.value = None
            /\ ObstacleCells(call.grid) = {} =>
                  Len(search.value) - 1 =
                      manhattan_distance(call.start_pos, call.end_pos)
            /\ (call.grid = CentreBlocked /\ call.start_pos = <<0, 0>>
                    /\ call.end_pos = <<2, 2>>) => Len(search.value) = 5

C2_Witness ==
    /\ call.algo = "a_star" /\ ReturnedPath
    /\ call.grid = CentreBlocked
    /\ call.start_pos = <<0, 0>> /\ call.end_pos = <<2, 2>>
    /\ Len(search.value) = 5

\* C3: every search call ends with a path or with None and never with an
\* exception, for every weight and every frontier bound max_nodes >= 0.
C3_NeverAnException == search.status # "raised"

\* C4: Greedy Best-First and Weighted A* with weight > 1 return a path
\* exactly when A* does on the same grid, start and goal, and their path is
\* never shorter than the one A* returns.
C4_NeverShorterThanAStar ==
    (Finished /\ (call.algo = "greedy_bfs"
                    \/ (call.algo = "weighted_a_star" /\ call.weight2 > 2))) =>
        LET astar == a_star_search(call.grid, call.start_pos, call.end_pos)
        IN  /\ search.status = "returned"
            /\ (search.value = None) <=> (astar = None)
            /\ Len(search.value) >= Len(astar)

C4_Witness ==
    /\ call.algo = "greedy_bfs" /\ ReturnedPath
    /\ Len(search.value) >
          Len(a_star_search(call.grid, call.start_pos, call.end_pos))

\* C5: bounded-memory search called with max_nodes >= the number of
\* non-obstacle cells of the grid returns a path of the same cost as A*, and
\* None exactly when A* returns None.
C5_SmaMatchesAStar ==
    (call.algo = "sma_star" /\ Finished /\ call.max_nodes >= FreeCount(call.grid)) =>
        LET astar == a_star_search(call.grid, call.start_pos, call.end_pos)
        IN  /\ search.status = "returned"
            /\ Len(search.value) = Len(astar)

-----------------------------------------------------------------------------
(***************************************************************************)
(* The Robot of robot_partial_knowledge.py.  A robot is a record           *)
(*   [id, start, position, goal, path, local_map, record, wait_count]      *)
(* (start is the source's start_row, start_col; position its position and  *)
(* pos_x, pos_y; goal its goal_row, goal_col); a record entry is           *)
(* <<symbol, x, y>>.  full_map, grid_size and sensor_radius are the same   *)
(* for all robots of a run and are passed in.                              *)
(***************************************************************************)

\* Robot.get_symbol_at(grid, row, col)
get_symbol_at(size, grid, pos) ==
    IF 0 <= pos[1] /\ pos[1] < size[1] /\ 0 <= pos[2] /\ pos[2] < size[2]
    THEN At(grid, pos) ELSE "?"

InSeq(x, seq) == \E i \in 1 .. Len(seq) : seq[i] = x

\* The body of Robot.sense_environment's loops from the k-th pair (dx, dy) on,
\* dx the outer and dy the inner loop over range(-radius, radius + 1)
\* SenseFrom without the test `not in self.record`
RECURSIVE SenseFrom_AlwaysAppends(_, _, _, _, _)
SenseFrom_AlwaysAppends(rb, map, size, radius, k) ==
    LET width == 2 * radius + 1
        n == <<rb.position[1] + (k \div width) - radius,
               rb.position[2] + (k % width) - radius>>
        symbol == get_symbol_at(size, map, n)
        seen == [rb EXCEPT !.local_map = SetAt(@, n, symbol),
                           !.record = Append(@, <<symbol, n[1], n[2]>>)]
    IN  IF k >= width * width THEN rb
        ELSE IF 0 <= n[1] /\ n[1] < size[1] /\ 0 <= n[2] /\ n[2] < size[2]
        THEN SenseFrom_AlwaysAppends(seen, map, size, radius, k + 1)
        ELSE SenseFrom_AlwaysAppends(rb, map, size, radius, k + 1)

RECURSIVE SenseFrom(_, _, _, _, _)
SenseFrom(rb, map, size, radius, k) ==
    LET width == 2 * radius + 1
        n == <<rb.position[1] + (k \div width) - radius,
               rb.position[2] + (k % width) - radius>>
        symbol == get_symbol_at(size, map, n)
        entry == <<symbol, n[1], n[2]>>
        seen == [rb EXCEPT !.local_map = SetAt(@, n, symbol),
                           !.record = IF InSeq(entry, @) THEN @ ELSE Append(@, entry)]
    IN  IF k >= width * width THEN rb
        ELSE IF 0 <= n[1] /\ n[1] < size[1] /\ 0 <= n[2] /\ n[2] < size[2]
        THEN SenseFrom(seen, map, size, radius, k + 1)
        ELSE SenseFrom(rb, map, size, radius, k + 1)

\* sense_environment of a robot that sees its own cell only
sense_environment_OwnCellOnly(rb, map, size, radius) == SenseFrom(rb, map, size, 0, 0)

\* Robot.sense_environment
sense_environment(rb, map, size, radius) == SenseFrom(rb, map, size, radius, 0)

\* Robot.__init__
NewRobot(robot_id, start_pos, size, goal_pos, map, radius) ==
    sense_environment(
        [id |-> robot_id, start |-> start_pos, position |-> start_pos,
         goal |-> goal_pos, path |-> <<>>,
         local_map |-> SetAt([r \in 1 .. size[1] |-> [k \in 1 .. size[2] |-> "?"]],
                             goal_pos, "G"),
         record |-> <<<<"G", goal_pos[1], goal_pos[2]>>>>,
         wait_count |-> 0],
        map, size, radius)

\* path[1:] that keeps the first element
Tail1_KeepsFirst(path) == path

\* path[2:] in the place of path[1:]
Tail1_DropsTwo(path) == SubSeq(path, 3, Len(path))

\* path[1:]
Tail1(path) == SubSeq(path, 2, Len(path))

\* The order of the '?' cells with ties broken column by column
UnknownBefore_ColumnMajor(rb, p, q) ==
    LET dp == manhattan_distance(p, rb.position)
        dq == manhattan_distance(q, rb.position)
    IN  dp < dq \/ (dp = dq /\ (p[2] < q[2] \/ (p[2] = q[2] /\ p[1] < q[1])))

\* The '?' cells of the local map in the order plan_path tries them: built
\* row by row, then sorted (stable) by Manhattan distance to the robot
UnknownBefore(rb, p, q) ==
    LET dp == manhattan_distance(p, rb.position)
        dq == manhattan_distance(q, rb.position)
    IN  dp < dq \/ (dp = dq /\ (p[1] < q[1] \/ (p[1] = q[1] /\ p[2] < q[2])))

RECURSIVE SortedTiles(_, _)
SortedTiles(rb, tiles) ==
    IF tiles = {} THEN <<>>
    ELSE LET first == CHOOSE p \in tiles : \A q \in tiles \ {p} : UnknownBefore(rb, p, q)
         IN  <<first>> \o SortedTiles(rb, tiles \ {first})

unknown_tiles(rb) ==
    SortedTiles(rb, {p \in Cells(rb.local_map) : At(rb.local_map, p) = "?"})

\* The loop `for target in unknown_tiles` of plan_path from the i-th on: the
\* path adopted
RECURSIVE ExploreFrom(_, _, _)
ExploreFrom(rb, tiles, i) ==
    IF i > Len(tiles) THEN <<>>
    ELSE LET explore_path == a_star_search(rb.local_map, rb.position, tiles[i])
         IN  IF explore_path # None THEN Tail1(explore_path)
             ELSE ExploreFrom(rb, tiles, i + 1)

\* Robot.plan_path
plan_path(rb) ==
    LET path == a_star_search(rb.local_map, rb.position, rb.goal)
    IN  IF path # None
        THEN [rb EXCEPT !.path = Tail1(path)]
        ELSE [rb EXCEPT !.path = ExploreFrom(rb, unknown_tiles(rb), 1)]

\* plan_path of a robot object that plans on its attribute full_map
plan_path_of_ReadsTruth(rb, truth) == plan_path([rb EXCEPT !.local_map = truth])

\* Robot.plan_path of the robot object with the fields rb and the attribute
\* full_map = truth: the method reads self.local_map, self.position and the
\* goal, and self.full_map nowhere
plan_path_of(rb, truth) == plan_path(rb)

\* replan that takes the robot's start for its goal
replan_ToStart(rb, new_goal) == plan_path([rb EXCEPT !.goal = rb.start])

\* Robot.replan(new_goal)
replan(rb, new_goal) == plan_path([rb EXCEPT !.goal = new_goal])

\* Robot.move that does not enter an obstacle of the ground truth
move_RejectsObstacle(rb, map, size, radius) ==
    LET next_pos == rb.path[1]
    IN  sense_environment(
            [rb EXCEPT !.local_map = SetAt(@, rb.position, "0"),
                       !.path = Tail1(@),
                       !.position = IF get_symbol_at(size, map, next_pos) = "1"
                                    THEN @ ELSE next_pos],
            map, size, radius)

\* Robot.move without the call of sense_environment that ends it
move_WithoutSensing(rb, map, size, radius) ==
    [rb EXCEPT !.local_map = SetAt(@, rb.position, "0"),
               !.path = Tail1(@),
               !.position = rb.path[1]]

\* Robot.move, for a robot with a path: the robot after it (the caller
\* stores the new position in Robot.robot_positions)
move(rb, map, size, radius) ==
    LET next_pos == rb.path[1]
    IN  sense_environment(
            [rb EXCEPT !.local_map = SetAt(@, rb.position, "0"),
                       !.path = Tail1(@),
                       !.position = next_pos],
            map, size, radius)

\* The "PHASED THROUGH OBSTACLE" message of Robot.move
Phased(rb, map, size) == get_symbol_at(size, map, rb.path[1]) = "1"

\* A dict {(x, y): symbol} is a sequence of <<<<x, y>>, symbol>> in insertion
\* order with one entry per key; d[key] = symbol
DictSet(d, key, symbol) ==
    IF \E i \in 1 .. Len(d) : d[i][1] = key
    THEN [d EXCEPT ![CHOOSE i \in 1 .. Len(d) : d[i][1] = key] = <<key, symbol>>]
    ELSE Append(d, <<key, symbol>>)

\* d after the items i .. j of the record are entered in it, in order (the
\* range is split in halves to keep the evaluation shallow)
RECURSIVE DictOfRecord(_, _, _, _)
DictOfRecord(d, record, i, j) ==
    IF i > j THEN d
    ELSE IF i = j THEN DictSet(d, <<record[i][2], record[i][3]>>, record[i][1])
    ELSE LET half == DictOfRecord(d, record, i, (i + j) \div 2)
         IN  IF half = d THEN DictOfRecord(d, record, (i + j) \div 2 + 1, j)
             ELSE DictOfRecord(half, record, (i + j) \div 2 + 1, j)

\* Robot.share_knowledge
share_knowledge(rb) == DictOfRecord(<<>>, rb.record, 1, Len(rb.record))

\* One pass of the loop of Robot.receive_knowledge without the test of
\* line 136
ReceiveItem_Overwrites(got, shared_data, i) ==
    LET rb == got[1]
        pos == shared_data[i][1]
        symbol == shared_data[i][2]
    IN  <<[rb EXCEPT !.local_map = SetAt(@, pos, symbol),
                     !.record = Append(@, <<symbol, pos[1], pos[2]>>)],
          TRUE>>

\* One pass of the loop of Robot.receive_knowledge, for the i-th item:
\* <<the robot, updated>> after it
ReceiveItem(got, shared_data, i) ==
    LET rb == got[1]
        pos == shared_data[i][1]
        symbol == shared_data[i][2]
    IN  IF At(rb.local_map, pos) = "?"
        THEN <<[rb EXCEPT !.local_map = SetAt(@, pos, symbol),
                          !.record = Append(@, <<symbol, pos[1], pos[2]>>)],
               TRUE>>
        ELSE got

\* The loop of Robot.receive_knowledge for the items i .. j, from
\* got = <<the robot, updated>> (the range is split in halves)
RECURSIVE ReceiveFrom(_, _, _, _)
ReceiveFrom(got, shared_data, i, j) ==
    IF i > j THEN got
    ELSE IF i = j THEN ReceiveItem(got, shared_data, i)
    ELSE LET half == ReceiveFrom(got, shared_data, i, (i + j) \div 2)
         IN  IF half = got THEN ReceiveFrom(got, shared_data, (i + j) \div 2 + 1, j)
             ELSE ReceiveFrom(half, shared_data, (i + j) \div 2 + 1, j)

\* Robot.receive_knowledge that never plans
receive_knowledge_NeverPlans(rb, shared_data) ==
    ReceiveFrom(<<rb, FALSE>>, shared_data, 1, Len(shared_data))[1]

\* Robot.receive_knowledge
receive_knowledge(rb, shared_data) ==
    LET got == ReceiveFrom(<<rb, FALSE>>, shared_data, 1, Len(shared_data))
    IN  IF got[2] THEN plan_path(got[1]) ELSE got[1]

-----------------------------------------------------------------------------
(***************************************************************************)
(* run_partial_robots.py                                                   *)
(***************************************************************************)

\* max_steps of run_simulation
max_steps == 100

\* The wait_count at which a waiting robot replans
wait_threshold == 2

Ids == 1 .. Len(robots)

RECURSIVE DictUpdate(_, _, _, _)
\* dict.update: d.update(other), for other's items i .. j (the range is
\* split in halves)
DictUpdate(d, other, i, j) ==
    IF i > j THEN d
    ELSE IF i = j THEN DictSet(d, other[i][1], other[i][2])
    ELSE LET half == DictUpdate(d, other, i, (i + j) \div 2)
         IN  IF half = d THEN DictUpdate(d, other, (i + j) \div 2 + 1, j)
             ELSE DictUpdate(half, other, (i + j) \div 2 + 1, j)

RECURSIVE AllSharedFrom(_, _, _)
AllSharedFrom(rbs, d, i) ==
    IF i > Len(rbs) THEN d
    ELSE LET robot_data == share_knowledge(rbs[i])
         IN  AllSharedFrom(rbs, DictUpdate(d, robot_data, 1, Len(robot_data)), i + 1)

\* all_shared_data of broadcast_knowledge
all_shared_data(rbs) == AllSharedFrom(rbs, <<>>, 1)

\* broadcast_knowledge that delivers the facts of the first robot only
broadcast_knowledge_FirstOnly(rbs) ==
    LET data == share_knowledge(rbs[1])
    IN  [i \in 1 .. Len(rbs) |-> receive_knowledge(rbs[i], data)]

\* broadcast_knowledge(robots): the robots after it
broadcast_knowledge(rbs) ==
    LET data == all_shared_data(rbs)
    IN  [i \in 1 .. Len(rbs) |-> receive_knowledge(rbs[i], data)]

\* RestampedCell clearing an old 'R' to '?' instead of '0'
RestampedCell_ClearsToUnknown(map, positions, p) ==
    IF \E rid \in DOMAIN positions : positions[rid] = p THEN "R"
    ELSE IF At(map, p) = "R" THEN "?"
    ELSE At(map, p)

\* The symbol on cell p when the old markers are cleared to '1'
RestampedCell_ClearsToObstacle(map, positions, p) ==
    IF \E rid \in DOMAIN positions : positions[rid] = p THEN "R"
    ELSE IF At(map, p) = "R" THEN "1"
    ELSE At(map, p)

\* The symbol on cell p when the old markers are not cleared
RestampedCell_KeepsStale(map, positions, p) ==
    IF \E rid \in DOMAIN positions : positions[rid] = p THEN "R"
    ELSE At(map, p)

\* The symbol update_all_robot_positions leaves on cell p of a local map
RestampedCell(map, positions, p) ==
    IF \E rid \in DOMAIN positions : positions[rid] = p THEN "R"
    ELSE IF At(map, p) = "R" THEN "0"
    ELSE At(map, p)

\* update_all_robot_positions(robots): the robots after it
update_all_robot_positions(rbs, positions) ==
    [i \in 1 .. Len(rbs) |->
        [rbs[i] EXCEPT !.local_map =
            [r \in 1 .. NumRows(@) |->
                [k \in 1 .. NumCols(@) |-> RestampedCell(@, positions, <<r - 1, k - 1>>)]]]]

\* What Phase 2 did with a robot in the current step: the branch it took
\* (event), the position and wait_count it found, whether its intended cell
\* was another robot's position when it was processed (occupied), the
\* wait_count it tested against the threshold and the messages it printed
NoLog == [event |-> "none", pos_before |-> None, wait_before |-> 0,
          occupied |-> FALSE, wait_tested |-> 0, replanned |-> FALSE,
          phased |-> FALSE]

AtGoal(rb) == rb.position = rb.goal

\* conflicting_ids
conflicting_ids(moves, mv) == {rid \in DOMAIN moves : moves[rid] = mv}

\* The occupancy test without the positions of the other robots
Occupied_Never(rbs, rb, mv) == FALSE

\* The occupancy test that looks at the robots of lower id only
Occupied_LowerIds(rbs, rb, mv) ==
    \E j \in 1 .. Len(rbs) : rbs[j].id < rb.id /\ rbs[j].position = mv

\* (mv is the source's move)
\* any(other.position == move for other in robots if other.id != robot.id)
Occupied(rbs, rb, mv) ==
    \E j \in 1 .. Len(rbs) : rbs[j].id # rb.id /\ rbs[j].position = mv

\* Wait replanning at the threshold without resetting wait_count
Wait_KeepsCount(rb) ==
    LET counted == [rb EXCEPT !.wait_count = @ + 1]
    IN  IF counted.wait_count >= wait_threshold
        THEN replan(counted, counted.goal)
        ELSE counted

\* The waiting branch (lines 120-124 and 133-137): the robot after it
Wait(rb) ==
    LET counted == [rb EXCEPT !.wait_count = @ + 1]
    IN  IF counted.wait_count >= wait_threshold
        THEN [replan(counted, counted.goal) EXCEPT !.wait_count = 0]
        ELSE counted

\* Decision letting the highest id of a same-target conflict proceed
Decision_HighestIdProceeds(rbs, moves, rb) ==
    LET mv == moves[rb.id]
    IN  IF AtGoal(rb) THEN "at_goal"
        ELSE IF mv = None THEN "no_move"
        ELSE IF Cardinality(conflicting_ids(moves, mv)) > 1
                /\ rb.id # Max(conflicting_ids(moves, mv))
        THEN "wait_priority"
        ELSE IF Occupied(rbs, rb, mv) /\ mv # rb.goal
        THEN "wait_occupied"
        ELSE "moved"

\* Decision without the exemption of the robot's own goal cell
Decision_NoGoalExemption(rbs, moves, rb) ==
    LET mv == moves[rb.id]
    IN  IF AtGoal(rb) THEN "at_goal"
        ELSE IF mv = None THEN "no_move"
        ELSE IF Cardinality(conflicting_ids(moves, mv)) > 1
                /\ rb.id # Min(conflicting_ids(moves, mv))
        THEN "wait_priority"
        ELSE IF Occupied(rbs, rb, mv)
        THEN "wait_occupied"
        ELSE "moved"

\* What the Phase 2 loop decides for a robot: "at_goal" and "no_move" are the
\* two `continue`s at its head, "wait_priority" and "wait_occupied" the two
\* waiting branches, "moved" the fall-through to robot.move()
Decision(rbs, moves, rb) ==
    LET mv == moves[rb.id]
    IN  IF AtGoal(rb) THEN "at_goal"
        ELSE IF mv = None THEN "no_move"
        ELSE IF Cardinality(conflicting_ids(moves, mv)) > 1
                /\ rb.id # Min(conflicting_ids(moves, mv))
        THEN "wait_priority"
        ELSE IF Occupied(rbs, rb, mv) /\ mv # rb.goal
        THEN "wait_occupied"
        ELSE "moved"

-----------------------------------------------------------------------------
(***************************************************************************)
(* Spec: one run of run_simulation.  The initial state is the state after  *)
(* the robots are constructed (lines 72-81).                               *)
(***************************************************************************)

\* Grids of the simulation have one of these shapes
SimShapes == {<<1, 3>>, <<2, 2>>, <<2, 3>>}
\* A run has 1 .. MaxRobots robots
MaxRobots == 3
\* Robots sense with radius 0 .. MaxRadius (run_simulation uses the default, 1)
MaxRadius == 1
\* Grids of more than CrowdedCells cells have at most MaxRobots - 1 robots
CrowdedCells == 4
RobotsOn(shape) ==
    IF shape[1] * shape[2] <= CrowdedCells THEN MaxRobots ELSE MaxRobots - 1

\* The sequences of n pairwise different elements of S
RECURSIVE DistinctSeqs(_, _)
DistinctSeqs(S, n) ==
    IF n = 0 THEN {<<>>}
    ELSE {Append(q, x) : <<q, x>> \in
             {y \in DistinctSeqs(S, n - 1) \X S : \A i \in 1 .. Len(y[1]) : y[1][i] # y[2]}}

SearchIdle == call = Idle /\ search = Idle

\* The state after the robots of a run are constructed (lines 72-81), for
\* the grid of a shape with obstacles obst
RunOf(shape, obst, starts, goal_pos, radius) ==
    /\ SearchIdle
    /\ full_map = GridOf(shape, obst)
    /\ grid_size = shape
    /\ sensor_radius = radius
    /\ robots = [i \in 1 .. Len(starts) |->
                    NewRobot(i, starts[i], shape, goal_pos, full_map, radius)]
    /\ robot_positions = <<>>
    /\ pc = "plan"
    /\ cur = 1
    /\ time_step = 0
    /\ next_moves = [i \in Ids |-> None]
    /\ any_robot_moved = FALSE
    /\ step_log = [i \in Ids |-> NoLog]
    /\ outcome = {}

\* The runs on the grids of a shape
RunsOn(shape) ==
    \E obst \in SubsetsUpTo(CellsOf(shape[1], shape[2]), MaxObstacles) :
    \E n \in 1 .. RobotsOn(shape) :
    \E starts \in DistinctSeqs(CellsOf(shape[1], shape[2]) \ obst, n) :
    \E goal_pos \in CellsOf(shape[1], shape[2]) \ obst :
    \E radius \in 0 .. MaxRadius :
        RunOf(shape, obst, starts, goal_pos, radius)

Init == \E shape \in SimShapes : RunsOn(shape)

\* Lines 84-85: every robot plans its initial path
PlanInitial ==
    /\ pc = "plan"
    /\ robots' = [i \in Ids |-> plan_path(robots[i])]
    /\ pc' = "intent"
    /\ UNCHANGED <<call, search, full_map, grid_size, sensor_radius, robot_positions,
                   cur, time_step, next_moves, any_robot_moved, step_log, outcome>>

\* Lines 92-105: time_step += 1 and Phase 1 (the loop test of line 90 has
\* passed: time_step is 0 after PlanInitial, and Check tests it afterwards)
Phase1 ==
    /\ pc = "intent"
    /\ time_step' = time_step + 1
    /\ next_moves' = [i \in Ids |->
                         IF robots[i].path # <<>> THEN robots[i].path[1] ELSE None]
    /\ any_robot_moved' = FALSE
    /\ cur' = 1
    /\ step_log' = [i \in Ids |-> NoLog]
    /\ pc' = "phase2"
    /\ UNCHANGED <<call, search, full_map, grid_size, sensor_radius, robots,
                   robot_positions, outcome>>

\* Phase 2 with the broadcast inside its loop: the robots receive after each
\* pass
Phase2_BroadcastsInLoop ==
    /\ pc = "phase2"
    /\ cur <= Len(robots)
    /\ LET rb == robots[cur]
           decision == Decision(robots, next_moves, rb)
           waited == Wait(rb)
           moved == plan_path([move(rb, full_map, grid_size, sensor_radius)
                                  EXCEPT !.wait_count = 0])
       IN  /\ robots' = broadcast_knowledge([robots EXCEPT ![cur] =
                            CASE decision \in {"wait_priority", "wait_occupied"} -> waited
                              [] decision = "moved" -> moved
                              [] OTHER -> rb])
           /\ robot_positions' =
                 IF decision = "moved"
                 THEN [rid \in DOMAIN robot_positions \cup {rb.id} |->
                          IF rid = rb.id THEN moved.position ELSE robot_positions[rid]]
                 ELSE robot_positions
           /\ any_robot_moved' = (any_robot_moved \/ decision = "moved")
           /\ step_log' = [step_log EXCEPT ![cur] =
                 [event |-> decision,
                  pos_before |-> rb.position,
                  wait_before |-> rb.wait_count,
                  occupied |-> next_moves[cur] # None
                               /\ Occupied(robots, rb, next_moves[cur]),
                  wait_tested |-> IF decision \in {"wait_priority", "wait_occupied"}
                                  THEN rb.wait_count + 1 ELSE 0,
                  replanned |-> decision \in {"wait_priority", "wait_occupied"}
                                /\ rb.wait_count + 1 >= wait_threshold,
                  phased |-> decision = "moved" /\ Phased(rb, full_map, grid_size)]]
    /\ cur' = cur + 1
    /\ pc' = IF cur = Len(robots) THEN "broadcast" ELSE "phase2"
    /\ UNCHANGED <<call, search, full_map, grid_size, sensor_radius, time_step,
                   next_moves, outcome>>

\* Lines 107-143: one pass of the Phase 2 loop, for robots[cur]
Phase2 ==
    /\ pc = "phase2"
    /\ cur <= Len(robots)
    /\ LET rb == robots[cur]
           decision == Decision(robots, next_moves, rb)
           waited == Wait(rb)
           moved == plan_path([move(rb, full_map, grid_size, sensor_radius)
                                  EXCEPT !.wait_count = 0])
       IN  /\ robots' = [robots EXCEPT ![cur] =
                            CASE decision \in {"wait_priority", "wait_occupied"} -> waited
                              [] decision = "moved" -> moved
                              [] OTHER -> rb]
           /\ robot_positions' =
                 IF decision = "moved"
                 THEN [rid \in DOMAIN robot_positions \cup {rb.id} |->
                          IF rid = rb.id THEN moved.position ELSE robot_positions[rid]]
                 ELSE robot_positions
           /\ any_robot_moved' = (any_robot_moved \/ decision = "moved")
           /\ step_log' = [step_log EXCEPT ![cur] =
                 [event |-> decision,
                  pos_before |-> rb.position,
                  wait_before |-> rb.wait_count,
                  occupied |-> next_moves[cur] # None
                               /\ Occupied(robots, rb, next_moves[cur]),
                  wait_tested |-> IF decision \in {"wait_priority", "wait_occupied"}
                                  THEN rb.wait_count + 1 ELSE 0,
                  replanned |-> decision \in {"wait_priority", "wait_occupied"}
                                /\ rb.wait_count + 1 >= wait_threshold,
                  phased |-> decision = "moved" /\ Phased(rb, full_map, grid_size)]]
    /\ cur' = cur + 1
    /\ pc' = IF cur = Len(robots) THEN "broadcast" ELSE "phase2"
    /\ UNCHANGED <<call, search, full_map, grid_size, sensor_radius, time_step,
                   next_moves, outcome>>

\* Line 146: broadcast_knowledge(robots)
Broadcast ==
    /\ pc = "broadcast"
    /\ robots' = broadcast_knowledge(robots)
    /\ pc' = "refresh"
    /\ UNCHANGED <<call, search, full_map, grid_size, sensor_radius, robot_positions,
                   cur, time_step, next_moves, any_robot_moved, step_log, outcome>>

\* Line 149: update_all_robot_positions(robots)
Refresh ==
    /\ pc = "refresh"
    /\ robots' = update_all_robot_positions(robots, robot_positions)
    /\ pc' = "check"
    /\ UNCHANGED <<call, search, full_map, grid_size, sensor_radius, robot_positions,
                   cur, time_step, next_moves, any_robot_moved, step_log, outcome>>

\* The message of lines 164-165, printed after the loop is left
CapMessage == IF time_step = max_steps THEN {"max_steps"} ELSE {}

\* Check without the test of lines 158-160
Check_NeverStuck ==
    /\ pc = "check"
    /\ IF \A i \in Ids : AtGoal(robots[i])
       THEN outcome' = {"success"} \cup CapMessage /\ pc' = "done"
       ELSE IF time_step < max_steps
       THEN outcome' = outcome /\ pc' = "intent"
       ELSE outcome' = CapMessage /\ pc' = "done"
    /\ UNCHANGED <<call, search, full_map, grid_size, sensor_radius, robots,
                   robot_positions, cur, time_step, next_moves, any_robot_moved,
                   step_log>>

\* Lines 153-165 and the loop test of line 90 that follows them: one of the
\* two `break`s, or the next pass of the loop, or the end of the loop at the
\* step cap; once the loop is left the statement after it is run
Check ==
    /\ pc = "check"
    /\ IF \A i \in Ids : AtGoal(robots[i])
       THEN outcome' = {"success"} \cup CapMessage /\ pc' = "done"
       ELSE IF ~any_robot_moved /\ \A i \in Ids : robots[i].path = <<>>
       THEN outcome' = {"stuck"} \cup CapMessage /\ pc' = "done"
       ELSE IF time_step < max_steps
       THEN outcome' = outcome /\ pc' = "intent"
       ELSE outcome' = CapMessage /\ pc' = "done"
    /\ UNCHANGED <<call, search, full_map, grid_size, sensor_radius, robots,
                   robot_positions, cur, time_step, next_moves, any_robot_moved,
                   step_log>>

Next == PlanInitial \/ Phase1 \/ Phase2 \/ Broadcast \/ Refresh \/ Check

Spec == Init /\ [][Next]_vars

-----------------------------------------------------------------------------
(***************************************************************************)
(* CapSpec: runs of run_simulation long enough to meet the step cap, next  *)
(* to the short runs on the 1 x 3 grids.  In a long run one robot walks an *)
(* obstacle-free corridor of one row from its first cell to its last, one  *)
(* cell per step: it arrives one step before the cap, in the last          *)
(* permitted step, or not at all.                                          *)
(***************************************************************************)

CorridorLengths == {max_steps, max_steps + 1, max_steps + 2}

LongRun ==
    \E len \in CorridorLengths :
        RunOf(<<1, len>>, {}, <<<<0, 0>>>>, <<0, len - 1>>, 1)

CapInit == LongRun \/ RunsOn(<<1, 3>>)

CapSpec == CapInit /\ [][Next]_vars

-----------------------------------------------------------------------------
(***************************************************************************)
(* ExploreSpec: runs of run_simulation in which the goal cannot be         *)
(* reached.  One robot (sensor radius 1, as run_simulation has it) is on a *)
(* 4 x 4 grid whose goal is a corner with obstacles on both its            *)
(* neighbours; up to MaxObstacles more obstacles stand elsewhere.  The     *)
(* runs of one robot in a corridor of one row are added: there an obstacle *)
(* next to the robot cuts off the cells behind it.                         *)
(***************************************************************************)

ExploreShape == <<4, 4>>
EnclosedGoals == {<<0, 0>>, <<3, 3>>}
Enclosure(goal_pos) ==
    {q \in CellsOf(ExploreShape[1], ExploreShape[2]) : manhattan_distance(q, goal_pos) = 1}

ExploreCorridor == <<1, 7>>

EnclosedInit ==
    \E goal_pos \in EnclosedGoals :
    \E more \in SubsetsUpTo(CellsOf(ExploreShape[1], ExploreShape[2])
                                \ (Enclosure(goal_pos) \cup {goal_pos}), MaxObstacles) :
    \E start_pos \in CellsOf(ExploreShape[1], ExploreShape[2])
                        \ (Enclosure(goal_pos) \cup more) :
        RunOf(ExploreShape, Enclosure(goal_pos) \cup more, <<start_pos>>, goal_pos, 1)

CorridorInit ==
    \E obst \in SubsetsUpTo(CellsOf(ExploreCorridor[1], ExploreCorridor[2]), MaxObstacles) :
    \E start_pos \in CellsOf(ExploreCorridor[1], ExploreCorridor[2]) \ obst :
    \E goal_pos \in CellsOf(ExploreCorridor[1], ExploreCorridor[2]) \ obst :
        RunOf(ExploreCorridor, obst, <<start_pos>>, goal_pos, 1)

ExploreInit == EnclosedInit \/ CorridorInit

ExploreSpec == ExploreInit /\ [][Next]_vars

-----------------------------------------------------------------------------
(***************************************************************************)
(* Properties of the robots and of the conflict resolution of a step       *)
(***************************************************************************)

Sensed(rb) == sense_environment(rb, full_map, grid_size, sensor_radius)

\* The robots Phase 2 has already processed in the current step
Processed == IF pc \in {"phase2", "broadcast"} THEN 1 .. (cur - 1) ELSE {}

JustMoved(i) == i \in Processed /\ step_log[i].event = "moved"

\* C6: sense() is idempotent: a second call from the same position against
\* the same ground truth changes no LocalMap cell and appends no fact.  A
\* robot that has just been constructed or has just moved has sensed, so one
\* more call leaves it as it is; from any state, the second of two calls
\* changes nothing.
C6_SenseIdempotent ==
    \A i \in Ids :
        /\ Sensed(Sensed(robots[i])) = Sensed(robots[i])
        /\ (pc = "plan" \/ JustMoved(i)) => Sensed(robots[i]) = robots[i]

\* A robot has moved and sensed cells around its new position, and another
\* robot's map carries an 'R' mark that a call of sense() would overwrite
C6_Witness ==
    /\ sensor_radius = 1
    /\ \E i \in Ids : JustMoved(i) /\ Len(robots[i].record) > 3
    /\ \E j \in Ids : Sensed(robots[j]) # robots[j]

Known(rb, p) == At(rb.local_map, p) # "?"

\* Every cell known to `before` is known to `after`
KnownKept(before, after) ==
    \A p \in Cells(before.local_map) : Known(before, p) => Known(after, p)

\* C7: under every operation (initial sense, sense, move, receive, refresh)
\* a LocalMap cell that is known never becomes Unknown again: each operation
\* applied to a robot of a reachable state keeps its known cells, the goal
\* cell marked before the initial sense is known after it, and no step of a
\* run takes a known cell back to Unknown.
C7_KnownStaysKnown ==
    /\ [](\A i \in Ids :
            LET rb == robots[i]
            IN  /\ KnownKept(rb, Sensed(rb))
                /\ rb.path # <<>> =>
                      KnownKept(rb, move(rb, full_map, grid_size, sensor_radius))
                /\ KnownKept(rb, receive_knowledge(rb, all_shared_data(robots)))
                /\ KnownKept(rb, update_all_robot_positions(robots, robot_positions)[i])
                /\ pc = "plan" => Known(rb, rb.goal))
    /\ [][\A i \in Ids : KnownKept(robots[i], robots'[i])]_vars

\* After the refresh of a later step a robot still has Unknown cells and
\* knows a cell out of its sensor's reach from its start and from its position
C7_Witness ==
    /\ pc = "check" /\ time_step >= 2
    /\ \E i \in Ids :
          /\ \E p \in Cells(robots[i].local_map) : ~Known(robots[i], p)
          /\ \E p \in Cells(robots[i].local_map) :
                /\ Known(robots[i], p)
                /\ manhattan_distance(p, robots[i].position) > 2 * sensor_radius
                /\ manhattan_distance(p, robots[i].start) > 2 * sensor_radius
                /\ p # robots[i].goal

\* The robots whose intent of the current step names the cell robot i intends
SameTarget(i) == conflicting_ids(next_moves, next_moves[i])

LostPriority(i) ==
    /\ next_moves[i] # None
    /\ Cardinality(SameTarget(i)) > 1
    /\ i # Min(SameTarget(i))

\* Robot i did not move and recorded a wait in the current step
Waited(i) ==
    /\ step_log[i].event \in {"wait_priority", "wait_occupied"}
    /\ robots[i].position = step_log[i].pos_before
    /\ step_log[i].wait_tested = step_log[i].wait_before + 1

\* Robot i entered the cell it intended in the current step
Entered(i) ==
    /\ step_log[i].event = "moved"
    /\ robots[i].position = next_moves[i]

\* C8: among the robots whose intents of a step name the same cell only the
\* one with the lowest id can move into it; every other one does not move
\* and records a wait.  At most one robot enters any given cell in one step.
C8_SameTargetLowestIdOnly ==
    /\ \A i \in Processed : LostPriority(i) => Waited(i)
    /\ \A i, j \in Processed :
          (i # j /\ step_log[i].event = "moved" /\ step_log[j].event = "moved")
             => robots[i].position # robots[j].position

\* Two robots intended the goal cell: the lower id entered, the other waited
C8_Witness ==
    /\ pc = "broadcast"
    /\ \E i, j \in Ids :
          /\ i < j /\ next_moves[i] # None /\ next_moves[i] = next_moves[j]
          /\ next_moves[i] = robots[i].goal
          /\ Entered(i) /\ Waited(j)

OccupiedWhenProcessed(i) == i \in Processed /\ step_log[i].occupied

\* C9 as stated: a robot processed while the cell it intends is another
\* robot's position does not move and records a wait, unless the cell is its
\* own goal, in which case it moves in regardless of the occupant.
C9_OccupancyConflict ==
    \A i \in Ids : OccupiedWhenProcessed(i) =>
        IF next_moves[i] = robots[i].goal THEN Entered(i) ELSE Waited(i)

\* C9, amended: as stated, for a robot that has not lost a same-target
\* conflict of the step; a robot that has lost one waits, its own goal cell
\* included.
C9_OccupancyConflictAfterPriority ==
    \A i \in Ids : OccupiedWhenProcessed(i) =>
        IF next_moves[i] = robots[i].goal /\ ~LostPriority(i)
        THEN Entered(i) ELSE Waited(i)

\* A robot has moved into its goal cell while another robot stood on it
C9_Witness ==
    \E i, j \in Ids :
        /\ i # j /\ OccupiedWhenProcessed(i) /\ Entered(i)
        /\ robots[i].position = robots[i].goal
        /\ robots[j].position = robots[i].position

\* C10: a robot made to wait has its wait counter incremented by exactly 1;
\* when the counter reaches 2 the robot replans to its own goal and the
\* counter is reset to 0 in the same step; a robot that moves has its
\* counter reset to 0.  Every robot's wait counter is 0 or 1 at the end of
\* every step.
C10_WaitAccounting ==
    /\ \A i \in Processed :
          LET log == step_log[i]
          IN  /\ log.event \in {"wait_priority", "wait_occupied"} =>
                    /\ log.wait_tested = log.wait_before + 1
                    /\ log.replanned <=> (log.wait_tested = 2)
                    /\ robots[i].wait_count = IF log.replanned THEN 0 ELSE log.wait_tested
                    /\ log.replanned => robots[i].path = plan_path(robots[i]).path
              /\ log.event = "moved" => robots[i].wait_count = 0
    /\ pc \notin {"phase2"} => \A i \in Ids : robots[i].wait_count \in {0, 1}

\* A robot that had waited once has waited again, replanned and been reset
C10_Witness ==
    /\ pc = "broadcast"
    /\ \E i \in Ids :
          /\ step_log[i].wait_before = 1 /\ step_log[i].replanned
          /\ robots[i].wait_count = 0

-----------------------------------------------------------------------------
(***************************************************************************)
(* How a run ends (C11, C12)                                               *)
(***************************************************************************)

\* Every robot stands on its goal
AllAtGoal == \A i \in Ids : robots[i].position = robots[i].goal
\* No robot moved in the step and every robot's path is empty
Stalled == ~any_robot_moved /\ \A i \in Ids : robots[i].path = <<>>

\* The end of a step: what the run does after the checks of the step
C11_EndOfStep ==
    pc = "check" =>
        /\ (AllAtGoal \/ Stalled) => pc' = "done"
        /\ (~AllAtGoal /\ ~Stalled /\ time_step < max_steps) => pc' = "intent"
        /\ (AllAtGoal <=> "success" \in outcome')
        /\ ((~AllAtGoal /\ Stalled) <=> "stuck" \in outcome')
\* The next step is executed: its number is one more
C11_NextStep == pc = "intent" => pc' = "phase2" /\ time_step' = time_step + 1

\* The statements of a step: Phase 1, one pass of Phase 2 for each robot, the
\* broadcast, the refresh and the checks
StepLength == Len(robots) + 4
\* An upper bound of the number of statements the run has still to execute
StatementsLeft ==
    CASE pc = "done" -> 0
      [] pc = "plan" -> max_steps * StepLength + 2
      [] pc = "intent" -> (max_steps - time_step) * StepLength + 1
      [] pc = "phase2" -> (max_steps - time_step) * StepLength + 1
                              + (Len(robots) - cur + 1) + 3
      [] pc = "broadcast" -> (max_steps - time_step) * StepLength + 1 + 3
      [] pc = "refresh" -> (max_steps - time_step) * StepLength + 1 + 2
      [] pc = "check" -> (max_steps - time_step) * StepLength + 1 + 1
\* A run that has not ended has a statement to execute: the guard of one of
\* the actions holds
CanStep ==
    \/ pc \in {"plan", "intent", "broadcast", "refresh", "check"}
    \/ pc = "phase2" /\ cur <= Len(robots)

\* C11: every run ends, after at most max_steps steps (a run that has not
\* ended executes a statement, and each statement brings the end nearer).
\* It ends at the end of a step before the cap exactly when that step ends in
\* success (every robot on its goal, tested first) or in a stall (no robot
\* moved and every path is empty); otherwise the next step is executed.
C11_RunEnds ==
    /\ [](pc = "done" \/ CanStep)
    /\ [](StatementsLeft \in Nat)
    /\ [][StatementsLeft' < StatementsLeft]_vars
    /\ [](time_step <= max_steps)
    /\ []((pc = "done" /\ time_step < max_steps) => (AllAtGoal \/ Stalled))
    /\ [][C11_EndOfStep /\ C11_NextStep]_vars

\* A run ended by the cap alone, after max_steps steps of which none ended
\* in success or in a stall
C11_Witness ==
    /\ pc = "done"
    /\ time_step = max_steps
    /\ ~AllAtGoal /\ ~Stalled

\* C12: a run has exactly one outcome out of success, stuck and incomplete;
\* it is incomplete only when the cap is reached and no step, the last
\* permitted one included, ended in success or in a stall.
C12_OneOutcome ==
    pc = "done" =>
        /\ Cardinality(outcome) = 1
        /\ "max_steps" \in outcome => (~AllAtGoal /\ ~Stalled)

\* The run of the corridor of max_steps + 1 cells: the robot enters the goal
\* in step max_steps
C12_Witness ==
    /\ pc = "done"
    /\ time_step = max_steps
    /\ AllAtGoal
    /\ outcome = {"success", "max_steps"}

-----------------------------------------------------------------------------
(***************************************************************************)
(* The corridor scenario (C13)                                             *)
(***************************************************************************)

\* A 1 x 3 grid without obstacles, robot 1 at (0,0), robot 2 at (0,1), the
\* goal at (0,2)
Corridor ==
    /\ grid_size = <<1, 3>>
    /\ full_map = GridOf(<<1, 3>>, {})
    /\ Len(robots) = 2
    /\ robots[1].start = <<0, 0>> /\ robots[2].start = <<0, 1>>
    /\ robots[1].goal = <<0, 2>>
\* Phase 2 of step n of the run is over
AfterPhase2(n) == time_step = n /\ pc = "broadcast"
WaitEvents == {"wait_priority", "wait_occupied"}

\* C13: in the corridor scenario the robot of the lower id moves in the first
\* step, the other robot waits exactly one step and then proceeds, and the run
\* ends in success.
C13_LowerIdMovesFirst ==
    Corridor =>
        /\ AfterPhase2(1) => /\ step_log[1].event = "moved"
                             /\ step_log[2].event \in WaitEvents
        /\ AfterPhase2(2) => step_log[2].event = "moved"
        /\ pc = "done" => outcome = {"success"}

\* C13 as the code has it: in the first step robot 1 finds (0,1) occupied by
\* robot 2 and waits, and robot 2 moves onto the goal; robot 1 has waited
\* exactly one step and proceeds in the steps 2 and 3; the run ends in
\* success after step 3.
C13_HigherIdMovesFirst ==
    Corridor =>
        /\ AfterPhase2(1) => /\ step_log[1].event = "wait_occupied"
                             /\ robots[1].position = <<0, 0>>
                             /\ step_log[2].event = "moved"
                             /\ robots[2].position = <<0, 2>>
        /\ AfterPhase2(2) => /\ step_log[1].event = "moved"
                             /\ robots[1].position = <<0, 1>>
                             /\ step_log[2].event = "at_goal"
        /\ AfterPhase2(3) => /\ step_log[1].event = "moved"
                             /\ robots[1].position = <<0, 2>>
        /\ pc = "done" => outcome = {"success"} /\ time_step = 3

C13_Witness == Corridor /\ pc = "done" /\ outcome = {"success"} /\ time_step = 3

-----------------------------------------------------------------------------
(***************************************************************************)
(* The RealityMismatch scenario (C14)                                      *)
(***************************************************************************)

AllCells == CellsOf(grid_size[1], grid_size[2])
OnPath(rb, c) == \E k \in 1 .. Len(rb.path) : rb.path[k] = c
\* The planned path of rb passes through c, which rb has not sensed and which
\* is an obstacle of the ground truth
PlansThroughUnsensedObstacle(rb, c) ==
    /\ OnPath(rb, c)
    /\ At(rb.local_map, c) = "?"
    /\ At(full_map, c) = "1"

\* C14: with sensor radius 1, a robot whose planned path passes through a
\* cell it has not sensed and that is an obstacle of the ground truth moves
\* onto that cell: it keeps the cell on its path until it enters it, and at
\* that move the mismatch is flagged and the cell becomes its position.
C14_MovesOntoUnsensedObstacle ==
    [][\A i \in Ids : \A c \in AllCells :
          (sensor_radius = 1 /\ PlansThroughUnsensedObstacle(robots[i], c)) =>
              \/ OnPath(robots'[i], c)
              \/ robots'[i].position = c /\ step_log'[i].phased]_vars

\* No robot stands on an obstacle, flags a mismatch or is about to enter an
\* obstacle
NoMismatch ==
    \A i \in Ids :
        /\ At(full_map, robots[i].position) # "1"
        /\ ~step_log[i].phased
        /\ robots[i].path # <<>> => get_symbol_at(grid_size, full_map, robots[i].path[1]) # "1"
\* A robot that learns of an obstacle on its path has a path without it
ReplansAround ==
    \A i \in Ids : \A c \in AllCells :
        (PlansThroughUnsensedObstacle(robots[i], c) /\ Known(robots'[i], c)) =>
            /\ At(robots'[i].local_map, c) = "1"
            /\ ~OnPath(robots'[i], c)
            /\ robots'[i].position # c

\* C14 as the code has it: with a sensor radius of 1 or more no robot ever
\* moves onto an obstacle and no mismatch is flagged.  The cell next on a
\* path has been sensed, and an unsensed obstacle on a planned path is sensed
\* before the robot reaches it; the path planned then avoids it.
C14_SensedBeforeReached ==
    /\ [](sensor_radius >= 1 => NoMismatch)
    /\ [][sensor_radius >= 1 => ReplansAround]_vars

\* One robot with radius 1 on the 2 x 3 grid with obstacles at (0,1) and
\* (1,2), from (0,0) to the goal (0,2): its only path in the local map led
\* through the unsensed (1,2); after its second move it stands on (1,1), has
\* sensed (1,2) and has no path
C14_Witness ==
    /\ sensor_radius = 1
    /\ full_map = GridOf(<<2, 3>>, {<<0, 1>>, <<1, 2>>})
    /\ Len(robots) = 1
    /\ robots[1].start = <<0, 0>> /\ robots[1].goal = <<0, 2>>
    /\ JustMoved(1) /\ robots[1].position = <<1, 1>>
    /\ At(robots[1].local_map, <<1, 2>>) = "1"
    /\ robots[1].path = <<>>

-----------------------------------------------------------------------------
(***************************************************************************)
(* Robot.move (C15)                                                        *)
(***************************************************************************)

\* The robot after Robot.move in the present run
Moved(rb) == move(rb, full_map, grid_size, sensor_radius)

\* C15: move() of a robot with a path always adopts the popped path entry as
\* the new position, whatever the ground truth of that cell; the mismatch is
\* flagged in that move exactly when the ground truth there is an obstacle.
C15_MoveAdoptsPoppedEntry ==
    /\ \A i \in Ids : robots[i].path # <<>> =>
          /\ Moved(robots[i]).position = robots[i].path[1]
          /\ Moved(robots[i]).path = Tail1(robots[i].path)
    /\ \A i \in Ids : JustMoved(i) =>
          /\ robots[i].position = next_moves[i]
          /\ step_log[i].phased <=> At(full_map, robots[i].position) = "1"

\* A robot has just moved onto an obstacle of the ground truth, and the
\* mismatch was flagged
C15_Witness ==
    \E i \in Ids :
        /\ JustMoved(i)
        /\ At(full_map, robots[i].position) = "1"
        /\ step_log[i].phased
        /\ robots[i].position # step_log[i].pos_before

-----------------------------------------------------------------------------
(***************************************************************************)
(* Robot.plan_path (C16, C17)                                              *)
(***************************************************************************)

\* The robot has just planned: in the initial plan, or after its move
JustPlanned(i) == (pc = "intent" /\ time_step = 0) \/ JustMoved(i)

\* The path leads from the robot's cell to `target` in 4-adjacent steps
\* through cells the local map does not show as obstacles
LeadsTo(rb, path, target) ==
    /\ path # <<>>
    /\ Adjacent(rb.position, path[1])
    /\ \A k \in 1 .. Len(path) - 1 : Adjacent(path[k], path[k + 1])
    /\ \A k \in 1 .. Len(path) : At(rb.local_map, path[k]) # "1"
    /\ path[Len(path)] = target

\* The goal can be reached in the local map
GoalReachable(rb) == ShortestCost(rb.local_map, rb.position, rb.goal) >= 0

\* C16: when A* on the local map finds a path from the robot's position to
\* its goal, plan_path adopts that path without its first element, the
\* current cell: the planned path ends at the goal, and it is empty when the
\* robot stands on its goal.
C16_PlanToGoal ==
    \A i \in Ids :
        LET rb == robots[i]
            path == a_star_search(rb.local_map, rb.position, rb.goal)
            planned == plan_path(rb).path
        IN  /\ GoalReachable(rb) <=> path # None
            /\ GoalReachable(rb) =>
                  /\ path[1] = rb.position
                  /\ <<rb.position>> \o planned = path
                  /\ Len(planned) = ShortestCost(rb.local_map, rb.position, rb.goal)
                  /\ IF rb.position = rb.goal THEN planned = <<>>
                     ELSE LeadsTo(rb, planned, rb.goal)
            /\ JustPlanned(i) => rb.path = planned

\* A robot has just planned a path of two or more cells to its goal
C16_Witness ==
    \E i \in Ids :
        /\ JustMoved(i)
        /\ GoalReachable(robots[i])
        /\ Len(robots[i].path) >= 2
        /\ LeadsTo(robots[i], robots[i].path, robots[i].goal)

\* The '?' cells of the local map of rb to which a path exists there
ReachableUnknown(rb) ==
    {u \in Cells(rb.local_map) :
        /\ At(rb.local_map, u) = "?"
        /\ ShortestCost(rb.local_map, rb.position, u) >= 0}
\* p comes before q in ascending Manhattan distance to rb, ties row by row
\* and, in a row, by column
ExploredBefore(rb, p, q) ==
    LET dp == Abs(p[1] - rb.position[1]) + Abs(p[2] - rb.position[2])
        dq == Abs(q[1] - rb.position[1]) + Abs(q[2] - rb.position[2])
    IN  \/ dp < dq
        \/ dp = dq /\ p[1] < q[1]
        \/ dp = dq /\ p[1] = q[1] /\ p[2] < q[2]
FirstReachableUnknown(rb) ==
    CHOOSE u \in ReachableUnknown(rb) :
        \A v \in ReachableUnknown(rb) \ {u} : ExploredBefore(rb, u, v)

\* C17: when the goal cannot be reached in the local map, plan_path adopts a
\* path to the first '?' cell, in ascending Manhattan distance to the robot
\* with ties in row-major order, to which A* finds a path in the local map;
\* the path is empty when there is no '?' cell or none can be reached.
C17_PlanToExplore ==
    \A i \in Ids :
        LET rb == robots[i]
            planned == plan_path(rb).path
        IN  ~GoalReachable(rb) =>
                /\ IF ReachableUnknown(rb) = {} THEN planned = <<>>
                   ELSE /\ LeadsTo(rb, planned, FirstReachableUnknown(rb))
                        /\ Len(planned) = ShortestCost(rb.local_map, rb.position,
                                                       FirstReachableUnknown(rb))
                /\ JustPlanned(i) => rb.path = planned

\* A robot has just planned an exploration path although the '?' cell that
\* comes first cannot be reached: the path leads to a later one
C17_Witness ==
    \E i \in Ids :
        /\ JustPlanned(i)
        /\ ~GoalReachable(robots[i])
        /\ robots[i].path # <<>>
        /\ robots[i].path[Len(robots[i].path)] = FirstReachableUnknown(robots[i])
        /\ \E w \in Cells(robots[i].local_map) :
              /\ At(robots[i].local_map, w) = "?"
              /\ w \notin ReachableUnknown(robots[i])
              /\ ExploredBefore(robots[i], w, FirstReachableUnknown(robots[i]))

-----------------------------------------------------------------------------
(***************************************************************************)
(* Robot.receive_knowledge (C18, C19)                                      *)
(***************************************************************************)

\* The cells of which the facts `data` are, and the symbol of the fact of p
FactCells(data) == {data[k][1] : k \in 1 .. Len(data)}
FactSymbol(data, p) == data[CHOOSE k \in 1 .. Len(data) : data[k][1] = p][2]
\* The cells of which rb adopts the fact: those it does not know
NewCells(rb, data) == {p \in FactCells(data) : At(rb.local_map, p) = "?"}

\* C18: receive_knowledge changes a cell of the local map only if the cell
\* was '?' before the call; such a cell is set to the symbol of its fact and
\* the fact is appended to the record.  Every cell known before the call
\* keeps its symbol.  (Checked for every robot and the facts the robots of
\* the state share.)
C18_ReceiveKeepsKnown ==
    LET data == all_shared_data(robots)
    IN  \A i \in Ids :
            LET rb == robots[i]
                got == receive_knowledge(rb, data)
                new == NewCells(rb, data)
                appended == SubSeq(got.record, Len(rb.record) + 1, Len(got.record))
            IN  /\ \A p \in AllCells \ new :
                      At(got.local_map, p) = At(rb.local_map, p)
                /\ \A p \in new :
                      /\ At(got.local_map, p) = FactSymbol(data, p)
                      /\ InSeq(<<FactSymbol(data, p), p[1], p[2]>>, appended)
                /\ SubSeq(got.record, 1, Len(rb.record)) = rb.record
                /\ Len(appended) = Cardinality(new)

\* The robots are about to receive; one of them adopts a fact and knows
\* another cell by a symbol that is not the symbol of the fact it receives
C18_Witness ==
    /\ pc = "broadcast"
    /\ LET data == all_shared_data(robots)
       IN  \E i \in Ids :
              /\ NewCells(robots[i], data) # {}
              /\ \E p \in FactCells(data) :
                    /\ Known(robots[i], p)
                    /\ At(robots[i].local_map, p) # FactSymbol(data, p)

\* C19: receive_knowledge plans again exactly when a fact was adopted; when
\* no fact is of a cell that is still '?', the local map, the record, the
\* position and the path are as before the call.
C19_ReplansIffAdopted ==
    LET data == all_shared_data(robots)
    IN  \A i \in Ids :
            LET rb == robots[i]
                got == receive_knowledge(rb, data)
            IN  IF NewCells(rb, data) = {}
                THEN /\ got.local_map = rb.local_map
                     /\ got.record = rb.record
                     /\ got.position = rb.position
                     /\ got.path = rb.path
                ELSE /\ got.path = plan_path(got).path
                     /\ got.position = rb.position

\* The robots are about to receive: one adopts a fact and its new plan is
\* another path, one with a path adopts none
C19_Witness ==
    /\ pc = "broadcast"
    /\ LET data == all_shared_data(robots)
       IN  /\ \E i \in Ids :
                 /\ NewCells(robots[i], data) # {}
                 /\ receive_knowledge(robots[i], data).path # robots[i].path
           /\ \E i \in Ids :
                 /\ NewCells(robots[i], data) = {}
                 /\ robots[i].path # <<>>

-----------------------------------------------------------------------------
(***************************************************************************)
(* broadcast_knowledge (C20)                                               *)
(***************************************************************************)

\* The cells of which rb holds a recorded fact
RecordedCells(rb) == {<<rb.record[k][2], rb.record[k][3]>> : k \in 1 .. Len(rb.record)}
AfterBroadcast == pc = "refresh"

\* C20: right after the broadcast of a step, every cell of which any robot
\* holds a recorded fact is known in the local map of every robot.
C20_BroadcastAllToAll ==
    AfterBroadcast =>
        \A i \in Ids : \A j \in Ids : \A p \in RecordedCells(robots[j]) :
            Known(robots[i], p)

\* After the broadcast of step 1 with sensor radius 0, a robot that has not
\* moved knows the cell another robot has moved to and sensed, and holds the
\* fact in its record
C20_Witness ==
    /\ AfterBroadcast
    /\ sensor_radius = 0
    /\ time_step = 1
    /\ \E i \in Ids : \E j \in Ids \ {i} :
          /\ step_log[i].event # "moved"
          /\ step_log[j].event = "moved"
          /\ robots[j].position # robots[i].goal
          /\ Known(robots[i], robots[j].position)
          /\ robots[j].position \in RecordedCells(robots[i])

-----------------------------------------------------------------------------
(***************************************************************************)
(* The phases of a step (C21)                                              *)
(***************************************************************************)

\* p is in the square of the sensor radius around q
InSight(p, q) == Abs(p[1] - q[1]) <= sensor_radius /\ Abs(p[2] - q[2]) <= sensor_radius
\* The entries `after` has appended to the record of `before`
Appended(before, after) == SubSeq(after.record, Len(before.record) + 1, Len(after.record))
\* Every robot has been through its conflict resolution of the step
AllResolved == \A i \in Ids : step_log[i].event # "none"

\* While the robots resolve and move, only the robot whose turn it is
\* changes, and it records only what it senses itself, from where it stands
C21_NoReceiveWhileMoving ==
    pc = "phase2" =>
        /\ \A i \in Ids \ {cur} : robots'[i] = robots[i]
        /\ Len(robots'[cur].record) >= Len(robots[cur].record)
        /\ \A k \in 1 .. Len(Appended(robots[cur], robots'[cur])) :
              LET entry == Appended(robots[cur], robots'[cur])[k]
              IN  /\ InSight(<<entry[2], entry[3]>>, robots'[cur].position)
                  /\ entry[1] = At(full_map, <<entry[2], entry[3]>>)
        /\ pc' = "broadcast" <=> cur = Len(robots)
        /\ pc' \in {"phase2", "broadcast"}
        /\ time_step' = time_step
\* The robots receive when every one of them is through, and what each
\* receives are the facts of all records as the moves of the step left them
C21_ReceiveAfterAllMoves ==
    pc = "broadcast" =>
        /\ AllResolved
        /\ \A i \in Ids :
              robots'[i] = receive_knowledge(robots[i], all_shared_data(robots))
        /\ robot_positions' = robot_positions
        /\ pc' = "refresh" /\ time_step' = time_step
\* The markers are refreshed when every robot has received: no robot has a
\* '?' where a robot has a fact
C21_RefreshAfterReceive ==
    pc = "refresh" =>
        /\ \A i \in Ids : \A j \in Ids :
              \A k \in 1 .. Len(robots[j].record) :
                  At(robots[i].local_map, <<robots[j].record[k][2], robots[j].record[k][3]>>) # "?"
        /\ \A i \in Ids : robots'[i].record = robots[i].record
        /\ pc' = "check" /\ time_step' = time_step

\* C21: the broadcast is a full barrier.  In every step no robot receives
\* before every robot has finished its conflict resolution and move, the
\* shared facts are those of the records after all moves of the step, and
\* the robot markers are refreshed only after every robot has received.
C21_BroadcastBarrier ==
    [][C21_NoReceiveWhileMoving /\ C21_ReceiveAfterAllMoves
          /\ C21_RefreshAfterReceive]_vars

\* All robots are through Phase 2; a robot that was processed first is about
\* to adopt the fact of the cell a later robot has moved to in this step
C21_Witness ==
    /\ pc = "broadcast"
    /\ AllResolved
    /\ \E i \in Ids : \E j \in Ids :
          /\ i < j
          /\ step_log[i].event = "moved" /\ step_log[j].event = "moved"
          /\ At(robots[i].local_map, robots[j].position) = "?"
          /\ robots[j].position \in RecordedCells(robots[j])

-----------------------------------------------------------------------------
(***************************************************************************)
(* update_all_robot_positions (C22)                                        *)
(***************************************************************************)

\* The positions stored in Robot.robot_positions
RegistryPositions == {robot_positions[rid] : rid \in DOMAIN robot_positions}
\* The cells a local map marks 'R'
MarkedCells(rb) == {p \in AllCells : At(rb.local_map, p) = "R"}
AfterRefresh == pc = "check"

\* C22: right after the refresh of a step the cells marked 'R' in the local
\* map of every robot are exactly the positions stored in the registry, and
\* every cell that was marked 'R' before the refresh and is no registry
\* position is marked '0'.
C22_MarkersAreRegistry ==
    /\ [](AfterRefresh => \A i \in Ids : MarkedCells(robots[i]) = RegistryPositions)
    /\ [][pc = "refresh" =>
             \A i \in Ids : \A p \in MarkedCells(robots[i]) \ RegistryPositions :
                 At(robots'[i].local_map, p) = "0"]_vars

\* After the refresh of a later step: a robot has moved on from a cell it
\* had moved to before; another robot's map shows the cell left as '0' and
\* the cell entered as 'R'
C22_Witness ==
    /\ AfterRefresh
    /\ time_step >= 2
    /\ \E i \in Ids : \E j \in Ids \ {i} :
          /\ step_log[j].event = "moved"
          /\ step_log[j].pos_before # robots[j].start
          /\ At(robots[i].local_map, step_log[j].pos_before) = "0"
          /\ At(robots[i].local_map, robots[j].position) = "R"
          /\ robots[j].position \in RegistryPositions

-----------------------------------------------------------------------------
(***************************************************************************)
(* plan_path and the ground truth (C23)                                    *)
(***************************************************************************)

\* The ground truth with the cell p changed: an obstacle made free, a free
\* cell made an obstacle
Flipped(map, p) == SetAt(map, p, IF At(map, p) = "1" THEN "0" ELSE "1")

-----------------------------------------------------------------------------
(***************************************************************************)
(* The frontier bound of sma_star_search (C24, C25, C26; checked under     *)
(* SearchSpec)                                                             *)
(***************************************************************************)

\* The next pass of the loop of sma_star_search begins with the pruning block
Pruning ==
    /\ search.status = "running"
    /\ call.algo = "sma_star"
    /\ Len(search.open_list) > call.max_nodes
\* The nodes of the frontier, and the node the pruning block removes from it
FrontierNodes == {search.open_list[j] : j \in 1 .. Len(search.open_list)}
EvictedNode ==
    search.open_list[RemoveIndex(search.nodes, search.open_list,
                        search.open_list[WorstIndex(search.nodes, search.open_list)])]

\* C24: whenever the frontier holds more than max_nodes nodes, the node
\* removed from it has the highest f of all frontier nodes, and of the
\* frontier nodes with that f it has the greatest depth.
C24_EvictsWorstDeepest ==
    Pruning =>
        \A k \in FrontierNodes :
            /\ search.nodes[k].f <= search.nodes[EvictedNode].f
            /\ search.nodes[k].f = search.nodes[EvictedNode].f =>
                  search.nodes[k].depth <= search.nodes[EvictedNode].depth

\* The frontier heappop is called on: what the pruning block leaves
FrontierAtPop == Prune(call, search.nodes, search.open_list)[2]
BoundedCall == call.algo = "sma_star" /\ call.max_nodes >= 1

\* C25: in a call with max_nodes >= 1 the frontier holds at most max_nodes
\* nodes whenever a node is popped from it.
C25_FrontierWithinBoundAtPop ==
    (search.status = "running" /\ BoundedCall) =>
        Len(FrontierAtPop) <= call.max_nodes

\* The goal can be reached from the start over cells that are not obstacles
GoalReachableInGrid ==
    /\ At(call.grid, call.start_pos) # "1"
    /\ ShortestCost(call.grid, call.start_pos, call.end_pos) >= 0

\* C26: a call with max_nodes >= 1 returns a path whenever the goal is
\* reachable; it returns None only when the goal is unreachable.
C26_FindsReachableGoal ==
    (Finished /\ BoundedCall /\ GoalReachableInGrid) => ReturnedPath

-----------------------------------------------------------------------------
(***************************************************************************)
(* The fact record and what share_knowledge returns of it (C27; checked    *)
(* under Spec)                                                             *)
(***************************************************************************)

\* The mapping share_knowledge returns sends the position of the k-th fact
\* of the record to the symbol of that fact
SharesFact(rb, k) ==
    LET data == share_knowledge(rb)
        p == <<rb.record[k][2], rb.record[k][3]>>
    IN  p \in FactCells(data) /\ FactSymbol(data, p) = rb.record[k][1]

\* C27: share_knowledge returns every fact of the record, so that no position
\* carries two recorded symbols (the goal cell included), and the facts of a
\* record are never changed or removed.
C27_ShareReturnsEveryFact ==
    /\ [](\A i \in Ids : \A k \in 1 .. Len(robots[i].record) : SharesFact(robots[i], k))
    /\ [][\A i \in Ids : SubSeq(robots'[i].record, 1, Len(robots[i].record))
                            = robots[i].record]_vars

-----------------------------------------------------------------------------
(***************************************************************************)
(* The shape of the paths the robots hold (C28; checked under Spec and     *)
(* ExploreSpec)                                                            *)
(***************************************************************************)

\* path continues the robot's position by steps to 4-adjacent cells
ChainFrom(position, path) ==
    path # <<>> =>
        /\ Adjacent(position, path[1])
        /\ \A k \in 1 .. Len(path) - 1 : Adjacent(path[k], path[k + 1])

\* C28: in every reachable state the path a robot holds is a chain of
\* 4-adjacent positions that starts next to the robot's position, and every
\* change of a robot's position is a step to a 4-adjacent cell.
C28_PathsAreChains ==
    /\ [](\A i \in Ids : ChainFrom(robots[i].position, robots[i].path))
    /\ [][\A i \in Ids : robots'[i].position # robots[i].position =>
                            Adjacent(robots[i].position, robots'[i].position)]_vars

\* A robot holding a path of several cells has just stepped along it
C28_Witness ==
    \E i \in Ids :
        /\ step_log[i].event = "moved"
        /\ robots[i].position # step_log[i].pos_before
        /\ Len(robots[i].path) >= 2

-----------------------------------------------------------------------------
(***************************************************************************)
(* Collisions (C29; checked under Spec, whose runs start the robots on     *)
(* pairwise distinct cells)                                                *)
(***************************************************************************)

DistinctStarts ==
    \A i, j \in Ids : i # j => robots[i].start # robots[j].start

\* C29: when the robots start on pairwise distinct cells, two different
\* robots are on the same cell only if that cell is the goal cell they share.
C29_CollisionFree ==
    DistinctStarts =>
        \A i, j \in Ids :
            (i # j /\ robots[i].position = robots[j].position) =>
                /\ robots[i].position = robots[i].goal
                /\ robots[j].position = robots[j].goal

\* A robot has waited in front of a cell another robot stood on, and two
\* robots stand on the goal cell together
C29_Witness ==
    /\ DistinctStarts
    /\ \E i \in Ids : step_log[i].event = "wait_occupied"
    /\ \E i, j \in Ids : i # j /\ robots[i].position = robots[j].position

-----------------------------------------------------------------------------
(***************************************************************************)
(* Robots and the obstacles of the ground truth (C30; checked under Spec)  *)
(***************************************************************************)

FreeObstacleTruth == \A c \in AllCells : At(full_map, c) \in {"0", "1"}
StartsOffObstacles == \A i \in Ids : At(full_map, robots[i].start) # "1"

\* C30: with a sensor radius of 1 or more, a ground truth of Free and
\* Obstacle cells and no robot started on an obstacle, in every reachable
\* state no robot stands on an obstacle of the ground truth and no move has
\* flagged a mismatch; the cell a robot is to step onto next is one it knows
\* (it was sensed before the path was planned) and knows not to be an obstacle.
C30_NeverOnObstacle ==
    (sensor_radius >= 1 /\ FreeObstacleTruth /\ StartsOffObstacles) =>
        \A i \in Ids :
            /\ At(full_map, robots[i].position) # "1"
            /\ ~step_log[i].phased
            /\ robots[i].path # <<>> =>
                  /\ At(robots[i].local_map, robots[i].path[1]) \notin {"?", "1"}
                  /\ At(full_map, robots[i].path[1]) # "1"

\* With radius 1, a robot has moved to a cell next to an obstacle that was
\* out of its sight where it stood before the move
C30_Witness ==
    /\ sensor_radius >= 1 /\ FreeObstacleTruth /\ StartsOffObstacles
    /\ \E i \in Ids : \E c \in AllCells :
          /\ step_log[i].event = "moved"
          /\ robots[i].position # step_log[i].pos_before
          /\ At(full_map, c) = "1"
          /\ Adjacent(robots[i].position, c)
          /\ ~InSight(c, step_log[i].pos_before)

-----------------------------------------------------------------------------
(***************************************************************************)
(* Robots at the goal (C31; checked under Spec)                            *)
(***************************************************************************)

\* C31: once a robot's position is its goal cell its position never changes
\* again, and no robot's goal changes during the run.
C31_GoalArrivalStable ==
    [][\A i \in Ids :
          /\ AtGoal(robots[i]) => robots'[i].position = robots[i].position
          /\ robots'[i].goal = robots[i].goal]_vars

\* In one step a robot is passed over at the goal, another has moved and a
\* third has replanned at the wait threshold
C31_Witness ==
    /\ \E i \in Ids : step_log[i].event = "at_goal" /\ AtGoal(robots[i])
    /\ \E j \in Ids : step_log[j].event = "moved"
    /\ \E k \in Ids : step_log[k].replanned

-----------------------------------------------------------------------------
(***************************************************************************)
(* What the robots know against the ground truth (C32, C33; checked under  *)
(* Spec)                                                                   *)
(***************************************************************************)

\* The cells the record of rb holds with symbol sym
FactsOf(rb, sym) ==
    {<<rb.record[k][2], rb.record[k][3]>> :
        k \in {n \in 1 .. Len(rb.record) : rb.record[n][1] = sym}}
\* The cells the local map of rb shows as sym
MarkedAs(rb, sym) == {c \in AllCells : At(rb.local_map, c) = sym}
TrueObstacles == {c \in AllCells : At(full_map, c) = "1"}

\* C32: in every reachable state every cell a local map shows as an obstacle,
\* and every cell a record holds as an obstacle, is an obstacle of the ground
\* truth.
C32_ObstacleKnowledgeSound ==
    \A i \in Ids :
        /\ MarkedAs(robots[i], "1") \subseteq TrueObstacles
        /\ FactsOf(robots[i], "1") \subseteq TrueObstacles

\* A robot that has not left its start knows of an obstacle out of its sight:
\* it has it from another robot
C32_Witness ==
    \E i \in Ids : \E c \in AllCells :
        /\ robots[i].position = robots[i].start
        /\ ~InSight(c, robots[i].start)
        /\ c \in MarkedAs(robots[i], "1") \cap FactsOf(robots[i], "1")

\* C33: for every sensor radius, in every reachable state no cell a local map
\* shows as free is an obstacle of the ground truth.
C33_FreeKnowledgeSound ==
    \A i \in Ids : MarkedAs(robots[i], "0") \cap TrueObstacles = {}

-----------------------------------------------------------------------------
(***************************************************************************)
(* Paths against the robots' own maps at the start of a step (C34;         *)
(* checked under Spec)                                                     *)
(***************************************************************************)

\* The start of a step: Phase 1 is about to take the intents
StepStart == pc = "intent"

\* C34: at the start of every step no robot's path holds a cell that the
\* robot's own local map shows as an obstacle.
C34_PathAvoidsKnownObstacles ==
    StepStart =>
        \A i \in Ids : \A k \in 1 .. Len(robots[i].path) :
            At(robots[i].local_map, robots[i].path[k]) # "1"

\* At the start of a step a robot that has not left its start holds a path
\* and knows, from another robot, of an obstacle out of its sight
C34_Witness ==
    /\ StepStart
    /\ time_step >= 1
    /\ \E i \in Ids : \E c \in AllCells :
          /\ robots[i].path # <<>>
          /\ robots[i].position = robots[i].start
          /\ ~InSight(c, robots[i].start)
          /\ At(robots[i].local_map, c) = "1"

-----------------------------------------------------------------------------
(***************************************************************************)
(* The local maps at the end of a step (C35, C36; checked under Spec)      *)
(***************************************************************************)

\* C35: after the refresh of every step every robot's local map shows 'R' on
\* the position of every robot of the run, the robots that have not moved
\* since the start included.
C35_EveryRobotMarked ==
    AfterRefresh =>
        \A i \in Ids : \A j \in Ids :
            At(robots[i].local_map, robots[j].position) = "R"

\* C36: at the end of every step, after the broadcast and the refresh, the
\* local maps of all robots are equal cell for cell.
C36_MapsIdentical ==
    AfterRefresh =>
        \A i \in Ids : robots[i].local_map = robots[1].local_map

-----------------------------------------------------------------------------
(***************************************************************************)
(* The closed set (C39; checked under SearchSpec, all five functions)      *)
(***************************************************************************)

\* The next pass pops a node, and the position of that node
Popping == search.status = "running" /\ FrontierAtPop # <<>>
PoppedPosition ==
    LET pruned == Prune(call, search.nodes, search.open_list)
    IN  pruned[1][heappop(pruned[1], pruned[2])[1]].position
\* The nodes the pass creates
Generated == (Len(search.nodes) + 1) .. Len(search'.nodes)

\* C39: in every search function a position is expanded at most once in a
\* call.  The closed set only grows; a popped node whose position is in it is
\* dropped without a neighbour being generated; the neighbours a pass
\* generates are those of a popped position that was not in the closed set
\* and is in it from then on, and none of them has a position of the closed
\* set.
C39_ExpandedAtMostOnce ==
    [][Popping =>
          /\ search.closed_set \subseteq search'.closed_set
          /\ PoppedPosition \in search.closed_set =>
                /\ Generated = {}
                /\ search'.closed_set = search.closed_set
          /\ \A k \in Generated :
                /\ search'.nodes[k].position \notin search'.closed_set
                /\ search'.nodes[search'.nodes[k].parent].position = PoppedPosition
                /\ PoppedPosition \notin search.closed_set
                /\ PoppedPosition \in search'.closed_set]_vars

\* A node is about to be popped whose position has been expanded before
C39_Witness ==
    /\ Popping
    /\ PoppedPosition \in search.closed_set
    /\ Len(search.open_list) >= 2

-----------------------------------------------------------------------------
(***************************************************************************)
(* HeuristicSpec: calls of relaxed_derived_heuristic on two positions with *)
(* coordinates in 0 .. MaxCoord (C40)                                      *)
(***************************************************************************)

MaxCoord == 3
Positions == (0 .. MaxCoord) \X (0 .. MaxCoord)

HeuristicInit ==
    /\ \E pa \in Positions, pb \in Positions :
          call = [algo |-> "relaxed_derived_heuristic", node_a |-> pa, node_b |-> pb]
    /\ search = [status |-> "running", value |-> None]
    /\ SimIdle

\* The call returns
HeuristicReturn ==
    /\ search.status = "running"
    /\ search' = [status |-> "returned",
                  value |-> relaxed_derived_heuristic(call.node_a, call.node_b)]
    /\ UNCHANGED <<call, sim_vars>>

HeuristicNext == HeuristicReturn

HeuristicSpec == HeuristicInit /\ [][HeuristicNext]_vars

\* C40: for every two positions with non-negative coordinates the
\* relaxed-problem heuristic equals the Manhattan distance, and it is never
\* the no-path value.
C40_RelaxedIsManhattan ==
    search.status = "returned" =>
        /\ search.value = manhattan_distance(call.node_a, call.node_b)
        /\ search.value # Infinity

\* A call has returned for two positions that differ in row and column, the
\* first below and to the right of the second
C40_Witness ==
    /\ search.status = "returned"
    /\ call.node_a[1] > call.node_b[1] + 1
    /\ call.node_a[2] > call.node_b[2]
    /\ search.value >= 3

-----------------------------------------------------------------------------
(***************************************************************************)
(* LoopSpec: two runs of run_simulation on 5 x 5 grids, sensor radius 1,   *)
(* in which the goal cannot be reached and the robots explore (C37, C38).  *)
(* In the first, one robot stands between two unknown regions; in the      *)
(* second, two robots meet in a corridor of one cell's width, each on its  *)
(* way to an unknown cell behind the other.                                *)
(***************************************************************************)

LoopShape == <<5, 5>>

\* 0 1 0 0 0        one robot at (1,2), goal (0,0)
\* 0 1 0 0 1
\* 1 0 0 0 0
\* 0 0 1 1 0
\* 1 1 1 0 1
WanderObstacles ==
    {<<0, 1>>, <<1, 1>>, <<1, 4>>, <<2, 0>>, <<3, 2>>, <<3, 3>>,
     <<4, 0>>, <<4, 1>>, <<4, 2>>, <<4, 4>>}
WanderInit == RunOf(LoopShape, WanderObstacles, <<<<1, 2>>>>, <<0, 0>>, 1)

\* 0 0 1 0 0        robots at (2,3) and (4,1), goal (0,3)
\* 1 1 0 1 1
\* 0 1 0 0 0
\* 0 1 0 1 0
\* 0 0 0 1 1
MeetObstacles ==
    {<<0, 2>>, <<1, 0>>, <<1, 1>>, <<1, 3>>, <<1, 4>>, <<2, 1>>, <<3, 1>>,
     <<3, 3>>, <<4, 3>>, <<4, 4>>}
MeetInit == RunOf(LoopShape, MeetObstacles, <<<<2, 3>>, <<4, 1>>>>, <<0, 3>>, 1)

LoopInit == WanderInit \/ MeetInit

LoopSpec == LoopInit /\ [][Next]_vars

-----------------------------------------------------------------------------
(***************************************************************************)
(* One pass of the loop of run_simulation as a function of the robots and  *)
(* the registry, and the runs that return to a state they were in (C37,    *)
(* C38; checked under LoopSpec)                                            *)
(***************************************************************************)

\* Lines 107-143, the turn of robot i in the Phase 2 loop: <<robots,
\* registry>> after it
Resolved(rbs, positions, moves, i) ==
    LET rb == rbs[i]
        decision == Decision(rbs, moves, rb)
        moved == plan_path([move(rb, full_map, grid_size, sensor_radius)
                               EXCEPT !.wait_count = 0])
    IN  CASE decision \in {"wait_priority", "wait_occupied"} ->
               <<[rbs EXCEPT ![i] = Wait(rb)], positions>>
          [] decision = "moved" ->
               <<[rbs EXCEPT ![i] = moved],
                 [rid \in DOMAIN positions \cup {rb.id} |->
                     IF rid = rb.id THEN moved.position ELSE positions[rid]]>>
          [] OTHER -> <<rbs, positions>>

\* Line 107, `for robot in robots`, from robot i on
RECURSIVE ResolveFrom(_, _, _, _)
ResolveFrom(rbs, positions, moves, i) ==
    IF i > Len(rbs) THEN <<rbs, positions>>
    ELSE LET turn == Resolved(rbs, positions, moves, i)
         IN  ResolveFrom(turn[1], turn[2], moves, i + 1)

\* Lines 146-149: the broadcast and the refresh that end a pass
Published(rbs, positions) ==
    <<update_all_robot_positions(broadcast_knowledge(rbs), positions), positions>>

\* Lines 95-149, one pass of `while time_step < max_steps` without its
\* tests: <<robots, registry>> after it
StepFrom(rbs, positions) ==
    LET moves == [i \in 1 .. Len(rbs) |->
                     IF rbs[i].path # <<>> THEN rbs[i].path[1] ELSE None]
        resolved == ResolveFrom(rbs, positions, moves, 1)
    IN  Published(resolved[1], resolved[2])

\* The pass from `before` to `after` is the last of the run: lines 153-160
\* (a move changes a position, so any_robot_moved is a changed position)
EndsRun(before, after) ==
    \/ \A i \in 1 .. Len(after) : AtGoal(after[i])
    \/ /\ \A i \in 1 .. Len(after) : after[i].position = before[i].position
       /\ \A i \in 1 .. Len(after) : after[i].path = <<>>

\* Robot i has a cell to go to and is not at the goal, and the pass from
\* `before` to `after` leaves it where it is, with a path: it has waited
WaitsIn(before, after, i) ==
    /\ before[i].path # <<>> /\ ~AtGoal(before[i])
    /\ after[i].position = before[i].position
    /\ after[i].path # <<>>

\* C38: but for the step cap every run ends in success or stall.  A run
\* that, two passes after the start of a step, is in the state of that start
\* again, neither pass having ended it, repeats the two passes for ever: at
\* no start of a step is a run in such a state.
C38_NoReturnToAState ==
    StepStart =>
        LET first == StepFrom(robots, robot_positions)
            second == StepFrom(first[1], first[2])
        IN  ~(/\ second = <<robots, robot_positions>>
              /\ ~EndsRun(robots, first[1])
              /\ ~EndsRun(first[1], second[1]))

\* C37: but for the step cap no robot that is not at its goal and keeps a
\* path waits in every step from some step on, the forced replans at the wait
\* threshold included: at no start of a step is a run in a state to which it
\* returns after two passes in both of which such a robot waits, one of the
\* waits being the one that reaches the threshold.
C37_NoPermanentWait ==
    StepStart =>
        LET first == StepFrom(robots, robot_positions)
            second == StepFrom(first[1], first[2])
        IN  ~(/\ second = <<robots, robot_positions>>
              /\ \E i \in Ids :
                    /\ WaitsIn(robots, first[1], i)
                    /\ WaitsIn(first[1], second[1], i)
                    /\ \/ robots[i].wait_count + 1 >= wait_threshold
                       \/ first[1][i].wait_count + 1 >= wait_threshold)

=============================================================================
